---- MODULE Spec2Model ----
(***************************************************************************)
(* A model of fixdoc's blast-radius engine (src/src/fixdoc/blast_radius.py)*)
(* as a state machine.  Each entry point has its own specification:        *)
(*   SpecScore    - calls of compute_blast_score                           *)
(*   SpecBFS      - one call of compute_affected_set, one queue pop a step *)
(*   SpecAnalyze  - one call of analyze_blast_radius                       *)
(*   SpecSeverity - calls of severity_label, alone and by an analysis      *)
(*   SpecClassify - calls of classify_control_point, is_boundary_resource  *)
(*   SpecHistory  - calls of compute_history_prior (SpecHistoryAll: alone  *)
(*                  and by an analysis)                                    *)
(*   SpecChecks   - calls of generate_checks, alone and by an analysis     *)
(*   SpecAction   - _normalize_action, extract_resources and an analysis   *)
(*                  on one list of actions                                 *)
(*   SpecChain    - analyses on graphs of long dependency chains           *)
(*   SpecCLI      - runs of the analyze command (commands/analyze.py)      *)
(*   SpecMalformed- analyze_blast_radius on plan objects of any shape      *)
(*   SpecWatch    - runs of the watch command (commands/watch.py)          *)
(*   SpecOrder    - a call or an analysis repeated with the types and the  *)
(*                  records of the store in another order                  *)
(*                                                                         *)
(* Numbers.  The code computes the score in binary floating point.  Every  *)
(* component of the sum is a multiple of 0.001, so the sum is kept here as *)
(* an exact integer number of thousandths ("milli-points") and the         *)
(* returned score as an integer number of tenths.  The only addend that   *)
(* is not exact in binary is 8 * 0.3 (a non-boundary create in an          *)
(* all-create plan).  round(x, 1) of a sum halfway between two tenths      *)
(* rounds half to even when the sum is exact (6.75 -> 6.8); when it holds  *)
(* an inexact addend (3.15, 4.65, ...) it goes either way with the         *)
(* representation error, and RoundOneDecimal yields both neighbours.       *)
(***************************************************************************)
EXTENDS Integers, Sequences, FiniteSets, TLC

VARIABLES
    entry,                \* the public function that was called
    pc,                   \* position inside that call
    \* compute_blast_score: arguments, the sum before the clamp, the result
    changed_nodes, l1_count, l2_count, history_match_count, raw_score, score,
    \* compute_affected_set: arguments, locals, result
    start_nodes, adjacency, max_depth, visited, queue, affected,
    enqueued,             \* history variable: how often each node was queued
    \* analyze_blast_radius: arguments, locals, result
    plan, repo, dot_text, control_points, l1_affected, l2_affected, result,
    \* a call of one of the other functions: its arguments and what it returned
    args, ret

scoreVars == <<changed_nodes, l1_count, l2_count, history_match_count, raw_score, score>>
bfsVars == <<start_nodes, adjacency, max_depth, visited, queue, affected, enqueued>>
anVars == <<plan, repo, dot_text, control_points, l1_affected, l2_affected, result>>
callVars == <<args, ret>>
vars == <<entry, pc, scoreVars, bfsVars, anVars, callVars>>

Min(a, b) == IF a <= b THEN a ELSE b
Max(a, b) == IF a >= b THEN a ELSE b
Range(s) == {s[i] : i \in 1..Len(s)}

(***************************************************************************)
(* Bounds of the model.                                                    *)
(***************************************************************************)
MaxChanged == 2       \* changed resources per call of compute_blast_score
BulkSize == 13        \* copies of one created resource in a bulk plan
MaxEdges == 3         \* edges of the adjacency mapping given to compute_affected_set
MaxSeeds == 2         \* length of the start_nodes list
MaxDepth == 2         \* max_depth ranges over 0..MaxDepth
MaxLines == 3         \* edge lines of a graph text given to analyze_blast_radius
MaxFixes == 2         \* records of a corpus drawn freely from the incident records
MaxControlPoints == 3 \* control points given to generate_checks
MaxActions == 3       \* length of the action list of a resource change
MaxChain == 22        \* dependents in the graph of a long dependency chain
MaxItems == 2         \* elements of the resource_changes of a plan object of any shape
MaxErrors == 3        \* errors parsed from the output of a watched command
MaxReturnCode == 2    \* return code of a watched command
MaxShuffled == 3      \* records of a store that is returned in every order

(***************************************************************************)
(* Strings: str.startswith and str.lower.                                  *)
(***************************************************************************)
StartsWith(s, p) == Len(p) <= Len(s) /\ SubSeq(s, 1, Len(p)) = p

LowerChar(c) ==
    CASE c = "A" -> "a" [] c = "B" -> "b" [] c = "C" -> "c" [] c = "D" -> "d"
      [] c = "E" -> "e" [] c = "F" -> "f" [] c = "G" -> "g" [] c = "H" -> "h"
      [] c = "I" -> "i" [] c = "J" -> "j" [] c = "K" -> "k" [] c = "L" -> "l"
      [] c = "M" -> "m" [] c = "N" -> "n" [] c = "O" -> "o" [] c = "P" -> "p"
      [] c = "Q" -> "q" [] c = "R" -> "r" [] c = "S" -> "s" [] c = "T" -> "t"
      [] c = "U" -> "u" [] c = "V" -> "v" [] c = "W" -> "w" [] c = "X" -> "x"
      [] c = "Y" -> "y" [] c = "Z" -> "z" [] OTHER -> c

RECURSIVE Lower(_)
Lower(s) ==
    IF Len(s) = 0 THEN ""
    ELSE LowerChar(SubSeq(s, 1, 1)) \o Lower(SubSeq(s, 2, Len(s)))

(***************************************************************************)
(* Control-point classification.  The table is kept in the dict's          *)
(* insertion order; criticality is in hundredths.                          *)
(***************************************************************************)
None == "None"

\* no call of another function is in progress
NoCall == args = <<>> /\ ret = None

CONTROL_POINT_PATTERNS ==
    << <<"aws_iam_role_policy_attachment", "iam", 90>>,
       <<"aws_iam_role_policy", "iam", 90>>,
       <<"aws_iam_policy_attachment", "iam", 90>>,
       <<"aws_iam_group_policy_attachment", "iam", 85>>,
       <<"aws_iam_user_policy_attachment", "iam", 85>>,
       <<"aws_iam_role", "iam", 90>>,
       <<"aws_iam_policy", "iam", 85>>,
       <<"aws_iam_user", "iam", 80>>,
       <<"aws_iam_group", "iam", 75>>,
       <<"azurerm_role_assignment", "rbac", 90>>,
       <<"azurerm_key_vault_access_policy", "rbac", 85>>,
       <<"azurerm_role_definition", "rbac", 85>>,
       <<"google_project_iam", "iam", 90>>,
       <<"google_service_account", "iam", 85>>,
       <<"aws_security_group", "network", 80>>,
       <<"aws_network_acl", "network", 80>>,
       <<"aws_route_table", "network", 70>>,
       <<"azurerm_network_security_group", "network", 80>>,
       <<"azurerm_firewall_rule", "network", 85>>,
       <<"google_compute_firewall", "network", 80>> >>

\* Mutant: the first prefix that matches wins
RECURSIVE ClassifyLoop_first(_, _, _, _, _)
ClassifyLoop_first(rt_lower, table, i, best_match, best_len) ==
    IF i > Len(table) THEN best_match
    ELSE LET prefix == table[i][1]
             hit == StartsWith(rt_lower, prefix) /\ best_match = None
         IN  ClassifyLoop_first(rt_lower, table, i + 1,
                                IF hit THEN <<table[i][2], table[i][3]>> ELSE best_match,
                                IF hit THEN Len(prefix) ELSE best_len)

\* The loop of classify_control_point over `table` from entry i on, with the
\* loop's locals best_match and best_len.
RECURSIVE ClassifyLoop(_, _, _, _, _)
ClassifyLoop(rt_lower, table, i, best_match, best_len) ==
    IF i > Len(table) THEN best_match
    ELSE LET prefix == table[i][1]
             hit == StartsWith(rt_lower, prefix) /\ Len(prefix) > best_len
         IN  ClassifyLoop(rt_lower, table, i + 1,
                          IF hit THEN <<table[i][2], table[i][3]>> ELSE best_match,
                          IF hit THEN Len(prefix) ELSE best_len)

classify_control_point(resource_type) ==
    ClassifyLoop(Lower(resource_type), CONTROL_POINT_PATTERNS, 1, None, 0)

\* The resource types the model draws from: an ordinary resource, two
\* control points (one written in upper case), a workload, the empty type,
\* and types that start with more than one prefix of the table or with none.
ResourceTypes ==
    {"aws_s3_bucket", "aws_iam_role", "AWS_Security_Group", "aws_instance",
     "aws_lambda_function", "", "aws_iam", "aws_iam_policy_attachment",
     "AWS_IAM_User_Policy_Attachment", "aws_iam_group_membership",
     "aws_iam_role_policy_attachment_v2", "google_project_iam_member"}

\* classify_control_point is pure: its value on the model's types, computed once.
Classification == [t \in ResourceTypes |-> classify_control_point(t)]

is_boundary_resource(resource_type) == Classification[resource_type] # None

(***************************************************************************)
(* The blast score (compute_blast_score), in thousandths.                  *)
(***************************************************************************)
\* Mutant: the points of update and create exchanged
ACTION_POINTS_swapped(action) ==
    CASE action = "delete" -> 20000
      [] action = "replace" -> 25000
      [] action = "update" -> 8000
      [] action = "create" -> 5000
      [] OTHER -> 0

\* ACTION_POINTS.get(action, 0), in thousandths
ACTION_POINTS(action) ==
    CASE action = "delete" -> 20000
      [] action = "replace" -> 25000
      [] action = "update" -> 5000
      [] action = "create" -> 8000
      [] OTHER -> 0

IMPACT_CAP == 25
HISTORY_POINTS == 5
HISTORY_CAP == 15

\* is_greenfield: a non-empty list whose every action is create
IsGreenfield(nodes) ==
    Len(nodes) > 0 /\ \A i \in 1..Len(nodes) : nodes[i].action = "create"

\* Mutant: a boundary create gets the non-boundary greenfield discount
NodePoints_one_discount(node, is_greenfield) ==
    LET points == ACTION_POINTS(node.action)
        weighted == IF is_boundary_resource(node.resource_type)
                    THEN (points * 3) \div 2 ELSE points
    IN  IF is_greenfield THEN (weighted * 3) \div 10 ELSE weighted

\* The points of one node: the body of the loop over changed_nodes.
NodePoints(node, is_greenfield) ==
    LET points == ACTION_POINTS(node.action)
    IN  IF is_boundary_resource(node.resource_type)
        THEN LET p15 == (points * 3) \div 2                 \* points *= 1.5
             IN  IF is_greenfield THEN p15 \div 2 ELSE p15  \* GREENFIELD_BOUNDARY_MULTIPLIER
        ELSE IF is_greenfield THEN (points * 3) \div 10     \* GREENFIELD_MULTIPLIER
             ELSE points

\* The loop over changed_nodes from node i on, with its accumulators
\* action_points and all_updates_no_boundary.
RECURSIVE ScoreLoop(_, _, _, _, _)
ScoreLoop(nodes, i, is_greenfield, action_points, all_updates_no_boundary) ==
    IF i > Len(nodes)
    THEN [action_points |-> action_points,
          all_updates_no_boundary |-> all_updates_no_boundary]
    ELSE ScoreLoop(nodes, i + 1, is_greenfield,
                   action_points + NodePoints(nodes[i], is_greenfield),
                   IF nodes[i].action # "update" \/ is_boundary_resource(nodes[i].resource_type)
                   THEN FALSE ELSE all_updates_no_boundary)

\* Mutant: no reduced impact weight for a greenfield plan
ImpactMultiplier_no_greenfield(is_greenfield, all_updates_no_boundary) ==
    IF all_updates_no_boundary /\ ~is_greenfield THEN 500 ELSE 1500

\* impact_multiplier, in thousandths
ImpactMultiplier(is_greenfield, all_updates_no_boundary) ==
    IF is_greenfield THEN 375            \* 1.5 * GREENFIELD_IMPACT_MULTIPLIER
    ELSE IF all_updates_no_boundary THEN 500
    ELSE 1500

\* Mutant: the history overlay is left out
BlastScoreSum_no_history(nodes, l1, l2, history) ==
    LET is_greenfield == IsGreenfield(nodes)
        loop == ScoreLoop(nodes, 1, is_greenfield, 0, TRUE)
        impacted_count == Min(l1 + l2, IMPACT_CAP)
    IN  loop.action_points
        + impacted_count * ImpactMultiplier(is_greenfield, loop.all_updates_no_boundary)

\* Mutant: the impacted count is not capped
BlastScoreSum_uncapped(nodes, l1, l2, history) ==
    LET is_greenfield == IsGreenfield(nodes)
        loop == ScoreLoop(nodes, 1, is_greenfield, 0, TRUE)
    IN  loop.action_points
        + (l1 + l2) * ImpactMultiplier(is_greenfield, loop.all_updates_no_boundary)
        + Min(history * HISTORY_POINTS, HISTORY_CAP) * 1000

\* `score` just before the clamp, in thousandths
BlastScoreSum(nodes, l1, l2, history) ==
    LET is_greenfield == IsGreenfield(nodes)
        loop == ScoreLoop(nodes, 1, is_greenfield, 0, TRUE)
        impacted_count == Min(l1 + l2, IMPACT_CAP)
    IN  loop.action_points
        + impacted_count * ImpactMultiplier(is_greenfield, loop.all_updates_no_boundary)
        + Min(history * HISTORY_POINTS, HISTORY_CAP) * 1000

\* Mutant: the upper clamp is missing
Clamp_no_upper(milli) == Max(0, milli)

\* min(100.0, max(0.0, score)), in thousandths
Clamp(milli) == Min(100000, Max(0, milli))

\* The float sum is exact unless a point value was multiplied by
\* GREENFIELD_MULTIPLIER
ExactSum(nodes) ==
    ~(IsGreenfield(nodes)
      /\ \E i \in 1..Len(nodes) : ~is_boundary_resource(nodes[i].resource_type))

\* round(x, 1): the tenths a float of value milli/1000 can round to
RoundOneDecimal(milli, exact) ==
    LET down == milli \div 100
        rest == milli % 100
    IN  IF rest < 50 THEN {down}
        ELSE IF rest > 50 THEN {down + 1}
        ELSE IF exact THEN {IF down % 2 = 0 THEN down ELSE down + 1}
        ELSE {down, down + 1}

\* The values compute_blast_score can return, in tenths
compute_blast_score(nodes, l1, l2, history) ==
    RoundOneDecimal(Clamp(BlastScoreSum(nodes, l1, l2, history)), ExactSum(nodes))

(***************************************************************************)
(* SpecScore: calls of compute_blast_score.                                *)
(***************************************************************************)
Actions == {"delete", "replace", "update", "create", "import"}

\* BlastNode(address, resource_type, action): the other fields take their defaults
BlastNode(address, resource_type, action) ==
    [address |-> address, resource_type |-> resource_type, action |-> action,
     is_control_point |-> FALSE, criticality |-> 0, category |-> ""]

\* BlastResult(): every field at its default
EmptyResult ==
    [score |-> 0, severity |-> "low", changes |-> <<>>, control_points |-> <<>>,
     affected |-> <<>>, why_paths |-> <<>>, checks |-> <<>>, history_matches |-> <<>>,
     plan_summary |-> <<>>]

NoAnalysis ==
    /\ plan = <<>> /\ repo = <<>> /\ dot_text = <<>> /\ control_points = <<>>
    /\ l1_affected = <<>> /\ l2_affected = <<>> /\ result = EmptyResult

ScoreTypes == {"aws_s3_bucket", "aws_iam_role"}

ScoreNodes == {BlastNode(t \o ".r", t, a) : t \in ScoreTypes, a \in Actions}

SeqsUpTo(S, n) == UNION {[1..k -> S] : k \in 0..n}

\* The counts a call is given: none, one, and the values around each cap.
ImpactCounts == {0, 1} \cup ((IMPACT_CAP - 1)..(IMPACT_CAP + 1))
HistoryCounts == 0..((HISTORY_CAP \div HISTORY_POINTS) + 1)

\* A bulk plan: BulkSize copies of one created resource (a block expanded by
\* count or for_each), then at most one more resource.
Copies(node, n) == [i \in 1..n |-> node]

BulkPlans ==
    {Copies(BlastNode(t \o ".r", t, "create"), BulkSize) \o tail :
        t \in ScoreTypes, tail \in SeqsUpTo(ScoreNodes, 1)}

ScorePlans == SeqsUpTo(ScoreNodes, MaxChanged) \cup BulkPlans

NoBFS ==
    /\ start_nodes = <<>> /\ adjacency = <<>> /\ max_depth = 0
    /\ visited = <<>> /\ queue = <<>> /\ affected = <<>> /\ enqueued = <<>>

InitScore ==
    /\ entry = "compute_blast_score"
    /\ pc = "call"
    /\ changed_nodes \in ScorePlans
    /\ l1_count \in ImpactCounts
    /\ l2_count \in {0, 1}
    /\ history_match_count \in HistoryCounts
    /\ raw_score = 0
    /\ score = 0
    /\ NoBFS
    /\ NoAnalysis
    /\ NoCall

\* compute_blast_score(changed_nodes, l1_count, l2_count, history_match_count)
ComputeBlastScore ==
    /\ entry = "compute_blast_score"
    /\ pc = "call"
    /\ raw_score' = BlastScoreSum(changed_nodes, l1_count, l2_count, history_match_count)
    /\ score' \in compute_blast_score(changed_nodes, l1_count, l2_count, history_match_count)
    /\ pc' = "done"
    /\ UNCHANGED <<entry, callVars, changed_nodes, l1_count, l2_count, history_match_count, bfsVars, anVars>>

\* A second call: the same arguments, but resource i's action is a.
ScoreWithAction ==
    /\ entry = "compute_blast_score"
    /\ pc = "done"
    /\ \E i \in 1..Len(changed_nodes), a \in Actions :
          /\ a # changed_nodes[i].action
          /\ changed_nodes' = [changed_nodes EXCEPT ![i].action = a]
    /\ raw_score' = BlastScoreSum(changed_nodes', l1_count, l2_count, history_match_count)
    /\ score' \in compute_blast_score(changed_nodes', l1_count, l2_count, history_match_count)
    /\ pc' = "again"
    /\ UNCHANGED <<entry, callVars, l1_count, l2_count, history_match_count, bfsVars, anVars>>

\* The float operands of a call, in the order they are added: the points of
\* each node, the impact points and the history overlay (in thousandths).
\* Two calls with the same operands do the same float arithmetic.
Addends(nodes, l1, l2, history) ==
    <<[i \in 1..Len(nodes) |-> NodePoints(nodes[i], IsGreenfield(nodes))],
      BlastScoreSum(nodes, l1, l2, 0) - BlastScoreSum(nodes, 0, 0, 0),
      BlastScoreSum(nodes, 0, 0, history) - BlastScoreSum(nodes, 0, 0, 0)>>

\* A second call: the same changed resources, but one of l1_count, l2_count
\* and history_match_count has another value.
ScoreWithCounts ==
    /\ entry = "compute_blast_score"
    /\ pc = "done"
    /\ \/ /\ l1_count' \in ImpactCounts \ {l1_count}
          /\ UNCHANGED <<l2_count, history_match_count>>
       \/ /\ l2_count' \in {0, 1} \ {l2_count}
          /\ UNCHANGED <<l1_count, history_match_count>>
       \/ /\ history_match_count' \in HistoryCounts \ {history_match_count}
          /\ UNCHANGED <<l1_count, l2_count>>
    /\ raw_score' = BlastScoreSum(changed_nodes, l1_count', l2_count', history_match_count')
    /\ score' \in IF Addends(changed_nodes, l1_count', l2_count', history_match_count')
                     = Addends(changed_nodes, l1_count, l2_count, history_match_count)
                  THEN {score}
                  ELSE compute_blast_score(changed_nodes, l1_count', l2_count',
                                           history_match_count')
    /\ pc' = "again"
    /\ UNCHANGED <<entry, callVars, changed_nodes, bfsVars, anVars>>

NextScore == ComputeBlastScore \/ ScoreWithAction \/ ScoreWithCounts

SpecScore == InitScore /\ [][NextScore]_vars

(***************************************************************************)
(* Bounded BFS (compute_affected_set).                                     *)
(*                                                                         *)
(* visited is a dict, which keeps its keys in insertion order: it is a     *)
(* sequence of AffectedResource records with distinct addresses.  queue    *)
(* is a deque of <<node, depth, path>>.  adjacency is a dict from node to  *)
(* set of nodes; a Python set is iterated in an order the program does not *)
(* control, so the neighbours of a node are visited in any order.          *)
(***************************************************************************)
AffectedResource(address, depth, path) ==
    [address |-> address, resource_type |-> "", depth |-> depth, path |-> path]

\* Mutant: a node without an entry has every node as neighbor
AdjGet_everything(adj, node) == IF node \in DOMAIN adj THEN adj[node] ELSE DOMAIN enqueued

\* adjacency.get(node, set())
AdjGet(adj, node) == IF node \in DOMAIN adj THEN adj[node] ELSE {}

\* Mutant: no node counts as visited
InVisited_never(vis, node) == FALSE

\* neighbor in visited
InVisited(vis, node) == \E i \in 1..Len(vis) : vis[i].address = node

\* visited[rec.address] = rec: a new key goes last, an old key keeps its place
VisitedPut(vis, rec) ==
    IF InVisited(vis, rec.address)
    THEN [i \in 1..Len(vis) |-> IF vis[i].address = rec.address THEN rec ELSE vis[i]]
    ELSE Append(vis, rec)

\* Mutant: a node at the depth limit is still expanded
AtDepthLimit_late(depth, limit) == depth > limit

\* if depth >= max_depth: continue
AtDepthLimit(depth, limit) == depth >= limit

\* Mutant: the queue is used as a stack
PopLeft_right(q) == [item |-> q[Len(q)], rest |-> SubSeq(q, 1, Len(q) - 1)]

\* queue.popleft()
PopLeft(q) == [item |-> Head(q), rest |-> Tail(q)]

\* The orders in which a set can be iterated
Orders(S) == {o \in [1..Cardinality(S) -> S] : \A i, j \in 1..Cardinality(S) : o[i] = o[j] => i = j}

\* Mutant: the start nodes are queued last one first
RECURSIVE SeedLoop_reversed(_, _, _, _)
SeedLoop_reversed(starts, i, vis, q) ==
    IF i > Len(starts) THEN [visited |-> vis, queue |-> q]
    ELSE SeedLoop_reversed(starts, i + 1,
                           VisitedPut(vis, AffectedResource(starts[Len(starts) + 1 - i], 0,
                                                            <<starts[Len(starts) + 1 - i]>>)),
                           Append(q, <<starts[Len(starts) + 1 - i], 0,
                                       <<starts[Len(starts) + 1 - i]>>>>))

\* for node in start_nodes: queue.append(...); visited[node] = ...
RECURSIVE SeedLoop(_, _, _, _)
SeedLoop(starts, i, vis, q) ==
    IF i > Len(starts) THEN [visited |-> vis, queue |-> q]
    ELSE SeedLoop(starts, i + 1,
                  VisitedPut(vis, AffectedResource(starts[i], 0, <<starts[i]>>)),
                  Append(q, <<starts[i], 0, <<starts[i]>>>>))

\* for neighbor in adjacency.get(current, set()), taken in the order `order`
RECURSIVE ExpandLoop(_, _, _, _, _, _)
ExpandLoop(order, i, depth, path, vis, q) ==
    IF i > Len(order) THEN [visited |-> vis, queue |-> q]
    ELSE LET neighbor == order[i]
             new_path == Append(path, neighbor)
         IN  IF ~InVisited(vis, neighbor)
             THEN ExpandLoop(order, i + 1, depth, path,
                             VisitedPut(vis, AffectedResource(neighbor, depth + 1, new_path)),
                             Append(q, <<neighbor, depth + 1, new_path>>))
             ELSE ExpandLoop(order, i + 1, depth, path, vis, q)

\* Mutant: the start nodes stay in the result
RemoveStarts_keep(vis, starts) == vis

\* [ar for ar in visited.values() if ar.address not in start_nodes]
RECURSIVE RemoveStarts(_, _)
RemoveStarts(vis, starts) ==
    IF vis = <<>> THEN <<>>
    ELSE IF Head(vis).address \in Range(starts)
         THEN RemoveStarts(Tail(vis), starts)
         ELSE <<Head(vis)>> \o RemoveStarts(Tail(vis), starts)

\* enqueued after the entries q[from..] were appended to the queue
RECURSIVE CountQueued(_, _, _)
CountQueued(counts, q, from) ==
    IF from > Len(q) THEN counts
    ELSE CountQueued([counts EXCEPT ![q[from][1]] = @ + 1], q, from + 1)

GraphNodes == {"A", "B", "C", "D"}
SeedNodes == {"A", "B"}

\* The adjacency dict of a set of edges <<from, to>>: a key for every node
\* that has an outgoing edge.
AdjacencyOf(edges) ==
    [n \in {e[1] : e \in edges} |-> {e[2] : e \in {d \in edges : d[1] = n}}]

EdgeSets(n) == {Range(s) : s \in SeqsUpTo(GraphNodes \X GraphNodes, n)}

NoScore ==
    /\ changed_nodes = <<>> /\ l1_count = 0 /\ l2_count = 0
    /\ history_match_count = 0 /\ raw_score = 0 /\ score = 0

InitBFS ==
    /\ entry = "compute_affected_set"
    /\ pc = "seed"
    /\ adjacency \in {AdjacencyOf(E) : E \in EdgeSets(MaxEdges)}
    /\ start_nodes \in SeqsUpTo(SeedNodes, MaxSeeds)
    /\ max_depth \in 0..MaxDepth
    /\ visited = <<>>
    /\ queue = <<>>
    /\ affected = <<>>
    /\ enqueued = [n \in GraphNodes |-> 0]
    /\ NoScore
    /\ NoAnalysis
    /\ NoCall

\* lines 256-263: the locals, and the loop over start_nodes
BFSSeed ==
    /\ pc = "seed"
    /\ LET r == SeedLoop(start_nodes, 1, <<>>, <<>>)
       IN  /\ visited' = r.visited
           /\ queue' = r.queue
           /\ enqueued' = CountQueued(enqueued, r.queue, 1)
    /\ pc' = "loop"
    /\ UNCHANGED <<entry, callVars, start_nodes, adjacency, max_depth, affected, scoreVars, anVars>>

\* lines 265-279: one turn of `while queue`
BFSPop ==
    /\ pc = "loop"
    /\ queue # <<>>
    /\ LET current == PopLeft(queue).item[1]
           depth == PopLeft(queue).item[2]
           path == PopLeft(queue).item[3]
           rest == PopLeft(queue).rest
       IN  IF AtDepthLimit(depth, max_depth)
           THEN /\ queue' = rest
                /\ UNCHANGED <<visited, enqueued>>
           ELSE \E order \in Orders(AdjGet(adjacency, current)) :
                   LET r == ExpandLoop(order, 1, depth, path, visited, rest)
                   IN  /\ visited' = r.visited
                       /\ queue' = r.queue
                       /\ enqueued' = CountQueued(enqueued, r.queue, Len(rest) + 1)
    /\ UNCHANGED <<entry, callVars, pc, start_nodes, adjacency, max_depth, affected, scoreVars, anVars>>

\* line 282: the queue is empty, the start nodes are removed from the result
BFSReturn ==
    /\ pc = "loop"
    /\ queue = <<>>
    /\ affected' = RemoveStarts(visited, start_nodes)
    /\ pc' = IF entry = "compute_affected_set" THEN "done" ELSE "tier"
    /\ UNCHANGED <<entry, callVars, start_nodes, adjacency, max_depth, visited, queue, enqueued, scoreVars, anVars>>

NextBFS == BFSSeed \/ BFSPop \/ BFSReturn

SpecBFS == InitBFS /\ [][NextBFS]_vars

\* The call always takes its next step: the program is single-threaded.
SpecBFSFair == SpecBFS /\ WF_vars(NextBFS)

(***************************************************************************)
(* analyze_blast_radius: the plan is read, the graph text is parsed, the   *)
(* traversal above runs from the changed resources, and the result is      *)
(* assembled.                                                              *)
(*                                                                         *)
(* Strings: str.strip, str.endswith, the `in` test on strings.             *)
(***************************************************************************)
Char(s, i) == SubSeq(s, i, i)

WhiteSpace == {" ", "\t", "\n", "\r"}

IsSpace(c) == c \in WhiteSpace

RECURSIVE LStrip(_)
LStrip(s) == IF s # "" /\ IsSpace(Char(s, 1)) THEN LStrip(SubSeq(s, 2, Len(s))) ELSE s

RECURSIVE RStrip(_)
RStrip(s) == IF s # "" /\ IsSpace(Char(s, Len(s))) THEN RStrip(SubSeq(s, 1, Len(s) - 1)) ELSE s

Strip(s) == RStrip(LStrip(s))

EndsWith(s, p) == Len(p) <= Len(s) /\ SubSeq(s, Len(s) - Len(p) + 1, Len(s)) = p

\* p in s
Contains(s, p) == \E i \in 1..(Len(s) - Len(p) + 1) : SubSeq(s, i, i + Len(p) - 1) = p

(***************************************************************************)
(* The DOT parser.  A graph text is held as the list of its lines (what    *)
(* splitlines returns); the empty text is the empty list.                  *)
(***************************************************************************)
Quote == "\""

\* the first position from i on that holds a character of `stop`, or Len(s) + 1
RECURSIVE RunEnd(_, _, _)
RunEnd(s, i, stop) ==
    IF i > Len(s) \/ Char(s, i) \in stop THEN i ELSE RunEnd(s, i + 1, stop)

\* \s* from position i: the first position that holds no white space
RECURSIVE SkipSpaces(_, _)
SkipSpaces(s, i) ==
    IF i > Len(s) \/ ~IsSpace(Char(s, i)) THEN i ELSE SkipSpaces(s, i + 1)

At(s, i, word) == i + Len(word) - 1 <= Len(s) /\ SubSeq(s, i, i + Len(word) - 1) = word

OrElse(match, other) == IF match # None THEN match ELSE other

\* "([^"]+)"\s*->\s*"([^"]+)" matched at position i: the groups, or None.
\* e1 and e2 are the ends of the two [^"]+, q2 is the second opening quote.
QuotedGroups(s, i, e1, arrow, q2, e2) ==
    IF /\ At(s, i, Quote) /\ e1 > i + 1 /\ At(s, e1, Quote)
       /\ At(s, arrow, "->")
       /\ At(s, q2, Quote) /\ e2 > q2 + 1 /\ At(s, e2, Quote)
    THEN <<SubSeq(s, i + 1, e1 - 1), SubSeq(s, q2 + 1, e2 - 1)>>
    ELSE None

QuotedSecond(s, i, e1, arrow, q2) ==
    QuotedGroups(s, i, e1, arrow, q2, RunEnd(s, q2 + 1, {Quote}))

QuotedArrow(s, i, e1, arrow) == QuotedSecond(s, i, e1, arrow, SkipSpaces(s, arrow + 2))

QuotedFirst(s, i, e1) == QuotedArrow(s, i, e1, SkipSpaces(s, e1 + 1))

QuotedEdgeAt(s, i) == QuotedFirst(s, i, RunEnd(s, i + 1, {Quote}))

\* (\S+)\s*->\s*(\S+) matched at position i with a first group of length k:
\* the groups, or None.  dst is where the second group starts.
BareGroups(s, i, k, arrow, dst) ==
    IF At(s, arrow, "->") /\ RunEnd(s, dst, WhiteSpace) > dst
    THEN <<SubSeq(s, i, i + k - 1), SubSeq(s, dst, RunEnd(s, dst, WhiteSpace) - 1)>>
    ELSE None

BareArrow(s, i, k, arrow) == BareGroups(s, i, k, arrow, SkipSpaces(s, arrow + 2))

\* The first \S+ is greedy: the longest length is tried first, then shorter ones.
RECURSIVE BareLongest(_, _, _)
BareLongest(s, i, k) ==
    IF k < 1 THEN None
    ELSE OrElse(BareArrow(s, i, k, SkipSpaces(s, i + k)), BareLongest(s, i, k - 1))

BareEdgeAt(s, i) == BareLongest(s, i, RunEnd(s, i, WhiteSpace) - i)

\* _EDGE_RE.search(s): the leftmost match, the quoted form tried first
RECURSIVE EdgeSearchFrom(_, _)
EdgeSearchFrom(s, i) ==
    IF i > Len(s) THEN None
    ELSE OrElse(OrElse(QuotedEdgeAt(s, i), BareEdgeAt(s, i)), EdgeSearchFrom(s, i + 1))

EdgeSearch(s) == EdgeSearchFrom(s, 1)

\* re.sub(r"\s*\(word\)\s*$", "", name), for a name that has nothing but
\* white space after its last word
DropSuffix(name, trimmed, word) ==
    IF EndsWith(trimmed, word)
    THEN RStrip(SubSeq(trimmed, 1, Len(trimmed) - Len(word)))
    ELSE name

RemoveSuffix(name, word) == DropSuffix(name, RStrip(name), word)

Unrooted(stripped) ==
    IF StartsWith(stripped, "[root] ") THEN SubSeq(stripped, 8, Len(stripped)) ELSE stripped

_normalize_tf_node(name) ==
    Strip(RemoveSuffix(RemoveSuffix(Unrooted(Strip(name)), "(expand)"), "(close)"))

\* d.setdefault(key, set()).add(value)
SetDefaultAdd(d, key, value) ==
    [k \in DOMAIN d \cup {key} |->
        (IF k \in DOMAIN d THEN d[k] ELSE {}) \cup (IF k = key THEN {value} ELSE {})]

\* d.setdefault(key, set())
SetDefault(d, key) == [k \in DOMAIN d \cup {key} |-> IF k \in DOMAIN d THEN d[k] ELSE {}]

SkippedLine(stripped) ==
    \/ StartsWith(stripped, "//") \/ StartsWith(stripped, "#")
    \/ StartsWith(stripped, "subgraph") \/ StartsWith(stripped, "digraph")
    \/ stripped \in {"}", "{"}

\* src and dst of a match m
EdgeNodes(m) ==
    IF m = None THEN None ELSE <<_normalize_tf_node(m[1]), _normalize_tf_node(m[2])>>

\* the edge a stripped line adds, or None
LineEdge(stripped) == IF SkippedLine(stripped) THEN None ELSE EdgeNodes(EdgeSearch(stripped))

\* for line in dot_text.splitlines()
RECURSIVE ParseLoop(_, _, _, _)
ParseLine(lines, i, forward, reverse, edge) ==
    IF edge = None
    THEN ParseLoop(lines, i + 1, forward, reverse)
    ELSE ParseLoop(lines, i + 1,
                   SetDefault(SetDefaultAdd(forward, edge[1], edge[2]), edge[2]),
                   SetDefault(SetDefaultAdd(reverse, edge[2], edge[1]), edge[1]))

ParseLoop(lines, i, forward, reverse) ==
    IF i > Len(lines) THEN [forward |-> forward, reverse |-> reverse]
    ELSE ParseLine(lines, i, forward, reverse, LineEdge(Strip(lines[i])))

parse_dot_graph(text) == ParseLoop(text, 1, <<>>, <<>>)

(***************************************************************************)
(* The resource-change extractor (TerraformAnalyzer.extract_resources).    *)
(* A plan is the parsed plan JSON: resource_changes is a list of           *)
(* [address, type, change.actions], planned_values.root_module.resources a *)
(* list of [address, type].  The fields the analysis never reads (name,    *)
(* provider, module path, values, child modules) are left out.             *)
(***************************************************************************)
PlanResource(address, resource_type, action) ==
    [address |-> address, resource_type |-> resource_type, action |-> action]

\* _normalize_action(actions): the rule on action_set = set(actions)
_normalize_action(actions) ==
    LET action_set == Range(actions)
    IN  IF "create" \in action_set /\ "delete" \in action_set THEN "replace"
        ELSE IF "delete" \in action_set THEN "delete"
        ELSE IF "update" \in action_set THEN "update"
        ELSE IF "create" \in action_set THEN "create"
        ELSE "no-op"

\* Mutant: create and delete together are not looked for
ExtractAction_no_replace(actions) ==
    IF "delete" \in Range(actions) THEN "delete"
    ELSE IF "update" \in Range(actions) THEN "update"
    ELSE IF "create" \in Range(actions) THEN "create"
    ELSE "no-op"

\* The action rule of extract_resources, on the list as written
ExtractAction(actions) ==
    IF "create" \in Range(actions) /\ "delete" \in Range(actions) THEN "replace"
    ELSE IF "delete" \in Range(actions) THEN "delete"
    ELSE IF "update" \in Range(actions) THEN "update"
    ELSE IF "create" \in Range(actions) THEN "create"
    ELSE "no-op"

\* for change in plan["resource_changes"]
RECURSIVE ChangesLoop(_, _, _)
ChangesLoop(resource_changes, i, resources) ==
    IF i > Len(resource_changes) THEN resources
    ELSE LET change == resource_changes[i]
         IN  IF change.type = ""
             THEN ChangesLoop(resource_changes, i + 1, resources)
             ELSE ChangesLoop(resource_changes, i + 1,
                              Append(resources,
                                     PlanResource(change.address, change.type,
                                                  ExtractAction(change.change.actions))))

\* process_module(root): for resource in module["resources"]
RECURSIVE PlannedLoop(_, _, _, _)
PlannedLoop(planned, i, resources, existing_addresses) ==
    IF i > Len(planned) THEN resources
    ELSE IF planned[i].address \in existing_addresses \/ planned[i].type = ""
         THEN PlannedLoop(planned, i + 1, resources, existing_addresses)
         ELSE PlannedLoop(planned, i + 1,
                          Append(resources,
                                 PlanResource(planned[i].address, planned[i].type, "unknown")),
                          existing_addresses \cup {planned[i].address})

_extract_from_planned_values(planned_values, resources) ==
    PlannedLoop(planned_values.root_module.resources, 1, resources,
                {r.address : r \in Range(resources)})

\* Deduplicate by address
RECURSIVE DedupLoop(_, _, _, _)
DedupLoop(resources, i, seen, unique) ==
    IF i > Len(resources) THEN unique
    ELSE IF resources[i].address \in seen
         THEN DedupLoop(resources, i + 1, seen, unique)
         ELSE DedupLoop(resources, i + 1, seen \cup {resources[i].address},
                        Append(unique, resources[i]))

extract_resources(p) ==
    DedupLoop(_extract_from_planned_values(p.planned_values,
                                           ChangesLoop(p.resource_changes, 1, <<>>)),
              1, {}, <<>>)

(***************************************************************************)
(* analyze_blast_radius, lines 614-663: the changed nodes.                 *)
(***************************************************************************)
\* Mutant: only no-op is skipped
SkippedActions_no_op == {"no-op"}

SkippedActions == {"no-op", "read", "refresh-only", "unknown"}

\* the actions of the first resource change with this address, else []
RawActions(p, address) ==
    LET hits == {i \in 1..Len(p.resource_changes) : p.resource_changes[i].address = address}
    IN  IF hits = {} THEN <<>>
        ELSE p.resource_changes[CHOOSE i \in hits : \A j \in hits : i <= j].change.actions

\* the BlastNode built for one extracted resource
NodeOf(p, res) ==
    LET raw_actions == RawActions(p, res.address)
        action == IF "create" \in Range(raw_actions) /\ "delete" \in Range(raw_actions)
                  THEN "replace" ELSE res.action
        cp_info == Classification[res.resource_type]
    IN  [address |-> res.address, resource_type |-> res.resource_type, action |-> action,
         is_control_point |-> cp_info # None,
         criticality |-> IF cp_info # None THEN cp_info[2] ELSE 0,
         category |-> IF cp_info # None THEN cp_info[1] ELSE ""]

RECURSIVE NodesLoop(_, _, _, _)
NodesLoop(p, resources, i, nodes) ==
    IF i > Len(resources) THEN nodes
    ELSE IF resources[i].action \in SkippedActions
         THEN NodesLoop(p, resources, i + 1, nodes)
         ELSE NodesLoop(p, resources, i + 1, Append(nodes, NodeOf(p, resources[i])))

ControlPointsOf(nodes) == SelectSeq(nodes, LAMBDA n : n.is_control_point)

\* the entry of `changes` for a node
ChangeOf(n) ==
    [address |-> n.address, resource_type |-> n.resource_type, action |-> n.action,
     is_control_point |-> n.is_control_point, category |-> n.category,
     criticality |-> n.criticality]

(***************************************************************************)
(* compute_tiered_affected.                                                *)
(***************************************************************************)
\* Mutant: the gate is always open
TierGate_open(nodes) == TRUE

\* has_boundary or has_destructive
TierGate(nodes) ==
    \/ \E i \in 1..Len(nodes) : is_boundary_resource(nodes[i].resource_type)
    \/ \E i \in 1..Len(nodes) : nodes[i].action \in {"delete", "replace"}

TierL1(all_affected) == SelectSeq(all_affected, LAMBDA ar : ar.depth = 1)

TierL2(all_affected, nodes) ==
    IF ~TierGate(nodes) THEN <<>> ELSE SelectSeq(all_affected, LAMBDA ar : ar.depth >= 2)

\* Mutant: the traversal follows the forward adjacency
TraversalAdjacency_forward(graph) == graph.forward

\* line 674: `_forward, reverse = parse_dot_graph(dot_text)`, reverse is used
TraversalAdjacency(graph) == graph.reverse

(***************************************************************************)
(* History prior.  A Fix is [id, issue, error_excerpt, tags, created_at].  *)
(* error_excerpt and tags are Optional[str]; the code only tests them for  *)
(* truth, so None is written "" here.  created_at is an ISO timestamp,     *)
(* compared as a string by the code: it is held as its rank in time order. *)
(***************************************************************************)
UpperLetters == {"A", "B", "C", "D", "E", "F", "G", "H", "I", "J", "K", "L", "M",
                 "N", "O", "P", "Q", "R", "S", "T", "U", "V", "W", "X", "Y", "Z"}
LowerLetters == {LowerChar(c) : c \in UpperLetters}
Digits == {"0", "1", "2", "3", "4", "5", "6", "7", "8", "9"}

\* \w
IsWordChar(c) == c \in UpperLetters \cup LowerLetters \cup Digits \cup {"_"}

\* [a-z]* from position i: the first position that holds no lower-case letter
RECURSIVE LowerEnd(_, _)
LowerEnd(s, i) ==
    IF i > Len(s) \/ Char(s, i) \notin LowerLetters THEN i ELSE LowerEnd(s, i + 1)

\* [A-Z][a-z]+ at position i: the position after it, or 0
HumpEnd(s, i) ==
    IF i + 1 <= Len(s) /\ Char(s, i) \in UpperLetters /\ Char(s, i + 1) \in LowerLetters
    THEN LowerEnd(s, i + 2)
    ELSE 0

\* (?:[A-Z][a-z]+)+ from position i, greedy: the position after the last hump
RECURSIVE HumpsEnd(_, _)
HumpsEnd(s, i) == IF HumpEnd(s, i) = 0 THEN i ELSE HumpsEnd(s, HumpEnd(s, i))

\* re.search(r'[A-Z][a-z]+(?:[A-Z][a-z]+)+', s): the matched text, or None
RECURSIVE CamelSearchFrom(_, _)
CamelSearchFrom(s, i) ==
    IF i > Len(s) THEN None
    ELSE IF HumpEnd(s, i) # 0 /\ HumpEnd(s, HumpEnd(s, i)) # 0
         THEN SubSeq(s, i, HumpsEnd(s, i) - 1)
         ELSE CamelSearchFrom(s, i + 1)

CamelSearch(s) == CamelSearchFrom(s, 1)

\* re.sub(r'[^\w\s]', '', s)
RECURSIVE DropPunctuation(_)
DropPunctuation(s) ==
    IF s = "" THEN ""
    ELSE (IF IsWordChar(Char(s, 1)) \/ IsSpace(Char(s, 1)) THEN Char(s, 1) ELSE "")
         \o DropPunctuation(SubSeq(s, 2, Len(s)))

\* s.split(): the runs of characters between white space
RECURSIVE WordsFrom(_, _)
WordsFrom(s, start) ==
    IF start > Len(s) THEN <<>>
    ELSE <<SubSeq(s, start, RunEnd(s, start, WhiteSpace) - 1)>>
         \o WordsFrom(s, SkipSpaces(s, RunEnd(s, start, WhiteSpace)))

Words(s) == WordsFrom(s, SkipSpaces(s, 1))

\* s.split(sep) for a one-character separator
RECURSIVE SplitFrom(_, _, _)
SplitFrom(s, start, sep) ==
    <<SubSeq(s, start, RunEnd(s, start, {sep}) - 1)>>
    \o (IF RunEnd(s, start, {sep}) > Len(s) THEN <<>>
        ELSE SplitFrom(s, RunEnd(s, start, {sep}) + 1, sep))

SplitOn(s, sep) == SplitFrom(s, 1, sep)

\* sep.join(parts)
RECURSIVE Join(_, _)
Join(parts, sep) ==
    IF parts = <<>> THEN ""
    ELSE IF Len(parts) = 1 THEN parts[1]
    ELSE parts[1] \o sep \o Join(Tail(parts), sep)

\* ' '.join(words[:4])
FirstWords(words) == Join(SubSeq(words, 1, Min(4, Len(words))), " ")

_history_cluster_key(fix) ==
    OrElse(CamelSearch(fix.issue), FirstWords(Words(Lower(DropPunctuation(fix.issue)))))

\* " ".join(filter(None, [fix.issue, fix.error_excerpt])).lower()
FixSearchable(fix) ==
    Lower(Join(SelectSeq(<<fix.issue, fix.error_excerpt>>, LAMBDA t : t # ""), " "))

\* {t.strip().lower() for t in fix.tags.split(",") if t.strip()}
FixTags(fix) ==
    {Lower(Strip(t)) : t \in {u \in Range(SplitOn(fix.tags, ",")) : Strip(u) # ""}}

\* Fix.matches_resource_type
matches_resource_type(fix, resource_type) ==
    IF fix.tags = "" THEN FALSE ELSE Contains(Lower(fix.tags), Lower(resource_type))

_HISTORY_CATEGORY_TAGS ==
    {"networking", "network", "rbac", "iam", "dns", "quota", "state",
     "state-lock", "auth", "authentication", "authorization", "acl",
     "route", "routing", "connectivity", "ingress", "egress", "security",
     "firewall", "k8s", "kubernetes", "key_vault", "vault", "certificate",
     "cert", "database", "db", "storage", "permissions"}

\* The resources of the configuration: a control point, an ordinary
\* resource and a workload.
PlanAddresses ==
    <<[address |-> "aws_iam_role.app", type |-> "aws_iam_role"],
      [address |-> "aws_s3_bucket.data", type |-> "aws_s3_bucket"],
      [address |-> "aws_lambda_function.api", type |-> "aws_lambda_function"]>>

AnalysisAddresses == {PlanAddresses[i].address : i \in 1..Len(PlanAddresses)}

Fix(id, issue, error_excerpt, tags, created_at) ==
    [id |-> id, issue |-> issue, error_excerpt |-> error_excerpt, tags |-> tags,
     created_at |-> created_at]

\* The incident stores: an empty one, and one with three records, two of
\* them reports of the same error.
Corpora ==
    {<<>>,
     <<Fix("a1f0c3d2-5b1e-4c8e-9a57-000000000001",
           "AccessDenied after the role policy was replaced", "", "aws_iam_role, IAM", 1),
       Fix("b7e4d9a0-2f6c-4e1b-8d33-000000000002",
           "Bucket aws_s3_bucket.data was emptied by a lifecycle rule",
           "Error: deleting S3 bucket", "aws_s3_bucket", 2),
       Fix("c3a8e1f6-7d2b-4f0a-b6c9-000000000003",
           "AccessDenied on lambda invoke", "User is not authorized",
           "aws_iam_role,aws_lambda_function,permissions", 3)>>}

\* The incident records given to compute_history_prior when it is called on
\* its own.  The first six are tagged with aws_iam_role and a concern
\* category and fall into four clusters (TimeoutError three times); then a
\* record tagged with the type only, two that mention an address, and two
\* with the same first four words, one tagged with a longer type name.
HistoryFixes ==
    {Fix("11111111-0000-4000-8000-000000000001", "TimeoutError on role update", "",
         "aws_iam_role, iam", 1),
     Fix("22222222-0000-4000-8000-000000000002", "ConnectError on role update", "",
         "aws_iam_role, networking", 2),
     Fix("33333333-0000-4000-8000-000000000003", "QuotaError on role update", "",
         "aws_iam_role,quota", 3),
     Fix("44444444-0000-4000-8000-000000000004", "AuthError on role update",
         "Error: not authorized", "aws_iam_role , Auth ", 4),
     Fix("55555555-0000-4000-8000-000000000005", "TimeoutError on role attach",
         "Error: timed out", "aws_iam_role, iam", 5),
     Fix("66666666-0000-4000-8000-000000000006", "TimeoutError again", "",
         "aws_iam_role, iam", 6),
     Fix("77777777-0000-4000-8000-000000000007", "role update failed", "",
         "aws_iam_role", 7),
     Fix("88888888-0000-4000-8000-000000000008", "aws_instance.app_a ran out of capacity", "",
         "aws_instance", 8),
     Fix("99999999-0000-4000-8000-000000000009", "Bucket was emptied",
         "Error: deleting AWS_S3_Bucket.Data", "", 9),
     Fix("aaaaaaaa-0000-4000-8000-00000000000a", "policy attach failed for the role", "",
         "aws_iam_role_policy, iam", 10),
     Fix("bbbbbbbb-0000-4000-8000-00000000000b", "Policy attach failed, for THE role!",
         "Error: limit exceeded", "aws_iam_role, iam", 11)}

\* The changed resources of those calls: a boundary resource, a deleted
\* resource, and two plain updates.
HistoryNodes ==
    {BlastNode("aws_iam_role.app", "aws_iam_role", "update"),
     BlastNode("aws_s3_bucket.data", "aws_s3_bucket", "delete"),
     BlastNode("aws_s3_bucket.data", "aws_s3_bucket", "update"),
     BlastNode("aws_instance.app_a", "aws_instance", "update")}

HistoryAddresses == {n.address : n \in HistoryNodes}

FixPool == UNION {Range(store) : store \in Corpora} \cup HistoryFixes

\* The string tests of the history prior are pure: their values on the
\* model's records, addresses and types, computed once.
\* The addresses a whose lower-cased text is in fix_searchable
MentionsAddress ==
    [fix \in FixPool |->
        {address \in AnalysisAddresses \cup HistoryAddresses :
            Contains(FixSearchable(fix), Lower(address))}]

TaggedWithType ==
    [fix \in FixPool |-> {t \in ResourceTypes : matches_resource_type(fix, t)}]

CategoryTags == [fix \in FixPool |-> FixTags(fix) \cap _HISTORY_CATEGORY_TAGS]

ClusterKey == [fix \in FixPool |-> _history_cluster_key(fix)]

\* The incident store (FixRepository): the records in the order the store returns them.
list_all(store) == store

find_by_resource_type(store, resource_type) ==
    SelectSeq(store, LAMBDA fix : resource_type \in TaggedWithType[fix])

\* seen_ids.add(fix.id); candidates.append((fix, rt))
Collect(found, fix, rt) ==
    [seen_ids |-> found.seen_ids \cup {fix.id},
     candidates |-> Append(found.candidates, <<fix, rt>>)]

\* Phase 1: for fix in repo.list_all().  changed_addresses holds the
\* addresses as written; MentionsAddress lower-cases them.
RECURSIVE AddressLoop(_, _, _, _)
AddressLoop(fixes, i, changed_addresses, found) ==
    IF i > Len(fixes) THEN found
    ELSE AddressLoop(fixes, i + 1, changed_addresses,
                     IF /\ changed_addresses \cap MentionsAddress[fixes[i]] # {}
                        /\ fixes[i].id \notin found.seen_ids
                     THEN Collect(found, fixes[i], "")
                     ELSE found)

\* Mutant: a record tagged with the type needs no category tag
RECURSIVE TagLoop_any(_, _, _, _)
TagLoop_any(fixes, i, rt, found) ==
    IF i > Len(fixes) THEN found
    ELSE TagLoop_any(fixes, i + 1, rt,
                     IF /\ fixes[i].id \notin found.seen_ids
                        /\ fixes[i].tags # ""
                     THEN Collect(found, fixes[i], rt)
                     ELSE found)

\* Phase 2, inner loop: for fix in repo.find_by_resource_type(rt)
RECURSIVE TagLoop(_, _, _, _)
TagLoop(fixes, i, rt, found) ==
    IF i > Len(fixes) THEN found
    ELSE TagLoop(fixes, i + 1, rt,
                 IF /\ fixes[i].id \notin found.seen_ids
                    /\ fixes[i].tags # ""
                    /\ CategoryTags[fixes[i]] # {}
                 THEN Collect(found, fixes[i], rt)
                 ELSE found)

\* Mutant: only the first of the types is looked up
RECURSIVE TypeLoop_first(_, _, _, _)
TypeLoop_first(types, i, store, found) ==
    IF i > Min(1, Len(types)) THEN found
    ELSE TypeLoop_first(types, i + 1, store,
                        TagLoop(find_by_resource_type(store, types[i]), 1, types[i], found))

\* Phase 2, outer loop: for rt in changed_resource_types
RECURSIVE TypeLoop(_, _, _, _)
TypeLoop(types, i, store, found) ==
    IF i > Len(types) THEN found
    ELSE TypeLoop(types, i + 1, store,
                  TagLoop(find_by_resource_type(store, types[i]), 1, types[i], found))

\* Mutant: the more recent record wins, with or without an excerpt
MoreComplete_latest(new, existing) == new.created_at > existing.created_at

\* new_score > existing_score on (1 if error_excerpt else 0, created_at)
MoreComplete(new, existing) ==
    LET n == IF new.error_excerpt # "" THEN 1 ELSE 0
        e == IF existing.error_excerpt # "" THEN 1 ELSE 0
    IN  n > e \/ (n = e /\ new.created_at > existing.created_at)

\* clusters is a dict: a list of [key, value] in insertion order.
\* One pass of the loop body for a candidate whose cluster key is `key`.
ClusterPut(clusters, key, candidate) ==
    LET at == {k \in 1..Len(clusters) : clusters[k].key = key}
    IN  IF at = {}
        THEN Append(clusters, [key |-> key, value |-> candidate])
        ELSE LET k == CHOOSE j \in at : TRUE
             IN  IF MoreComplete(candidate[1], clusters[k].value[1])
                 THEN [clusters EXCEPT ![k].value = candidate]
                 ELSE clusters

RECURSIVE ClusterLoop(_, _, _)
ClusterLoop(candidates, i, clusters) ==
    IF i > Len(candidates) THEN clusters
    ELSE ClusterLoop(candidates, i + 1,
                     ClusterPut(clusters, ClusterKey[candidates[i][1]], candidates[i]))

\* list(clusters.values())
ClusterValues(clusters) == [k \in 1..Len(clusters) |-> clusters[k].value]

_dedup_history_candidates(candidates) == ClusterValues(ClusterLoop(candidates, 1, <<>>))

HISTORY_MATCH_CAP == 3
SHORT_ID == 8

\* Mutant: without has_boundary or has_destructive there is no candidate
HistoryCandidates_gated(changed_resource_types, nodes, store, phase1) ==
    IF \/ \E i \in 1..Len(nodes) : is_boundary_resource(nodes[i].resource_type)
       \/ \E i \in 1..Len(nodes) : nodes[i].action \in {"delete", "replace"}
    THEN TypeLoop(changed_resource_types, 1, store, phase1).candidates
    ELSE <<>>

\* Phase 2 runs only when has_boundary or has_destructive
HistoryCandidates(changed_resource_types, nodes, store, phase1) ==
    IF \/ \E i \in 1..Len(nodes) : is_boundary_resource(nodes[i].resource_type)
       \/ \E i \in 1..Len(nodes) : nodes[i].action \in {"delete", "replace"}
    THEN TypeLoop(changed_resource_types, 1, store, phase1).candidates
    ELSE phase1.candidates

\* Mutant: every deduplicated candidate is returned
CapMatches_uncapped(all) == all

\* _dedup_history_candidates(candidates)[:3]
CapMatches(all) == SubSeq(all, 1, Min(HISTORY_MATCH_CAP, Len(all)))

\* the dicts of the deduped (fix, rt) pairs
HistoryMatches(deduped) ==
    [k \in 1..Len(deduped) |->
        [id |-> SubSeq(deduped[k][1].id, 1, Min(SHORT_ID, Len(deduped[k][1].id))),
         issue |-> deduped[k][1].issue,
         resource_type |-> deduped[k][2]]]

\* return len(result), result
HistoryPrior(matches) == [count |-> Len(matches), matches |-> matches]

compute_history_prior(changed_resource_types, nodes, store) ==
    HistoryPrior(HistoryMatches(CapMatches(_dedup_history_candidates(
        HistoryCandidates(changed_resource_types, nodes, store,
                          AddressLoop(list_all(store), 1,
                                      {nodes[i].address : i \in 1..Len(nodes)},
                                      [seen_ids |-> {}, candidates |-> <<>>]))))))

\* Mutant: the records that were matched are left with their short id
StoreAfter_shortened(store, matches) ==
    [k \in 1..Len(store) |->
        IF \E j \in 1..Len(matches) : matches[j].id = SubSeq(store[k].id, 1, Min(SHORT_ID, Len(store[k].id)))
        THEN [store[k] EXCEPT !.id = SubSeq(store[k].id, 1, Min(SHORT_ID, Len(store[k].id)))]
        ELSE store[k]]

\* The store once compute_history_prior has returned: the function calls
\* list_all and find_by_resource_type and assigns to no record.
StoreAfter(store, matches) == store

(***************************************************************************)
(* Severity and recommended checks.                                        *)
(***************************************************************************)
\* Mutant: the thresholds are exclusive
severity_label_exclusive(s) ==
    IF s > 750 THEN "critical"
    ELSE IF s > 500 THEN "high"
    ELSE IF s > 250 THEN "medium"
    ELSE "low"

\* score is in tenths
severity_label(s) ==
    IF s >= 750 THEN "critical"
    ELSE IF s >= 500 THEN "high"
    ELSE IF s >= 250 THEN "medium"
    ELSE "low"

CATEGORY_CHECKS ==
    [iam |-> <<"Review IAM policy least-privilege before applying",
               "Check service account permissions">>,
     rbac |-> <<"Review RBAC role assignment scope",
                "Verify key vault access policy changes">>,
     network |-> <<"Verify security group rules",
                   "Check for open 0.0.0.0/0 rules">>]

DELETE_CHECKS == <<"Confirm resource is not referenced by other stacks">>

\* Mutant: seen_categories is not consulted
RECURSIVE ChecksLoop_repeat(_, _, _, _)
ChecksLoop_repeat(cps, i, seen_categories, checks) ==
    IF i > Len(cps) THEN checks
    ELSE IF cps[i].category # ""
         THEN ChecksLoop_repeat(cps, i + 1, seen_categories \cup {cps[i].category},
                                checks \o (IF cps[i].category \in DOMAIN CATEGORY_CHECKS
                                           THEN CATEGORY_CHECKS[cps[i].category] ELSE <<>>))
         ELSE ChecksLoop_repeat(cps, i + 1, seen_categories, checks)

RECURSIVE ChecksLoop(_, _, _, _)
ChecksLoop(cps, i, seen_categories, checks) ==
    IF i > Len(cps) THEN checks
    ELSE IF cps[i].category # "" /\ cps[i].category \notin seen_categories
         THEN ChecksLoop(cps, i + 1, seen_categories \cup {cps[i].category},
                         checks \o (IF cps[i].category \in DOMAIN CATEGORY_CHECKS
                                    THEN CATEGORY_CHECKS[cps[i].category] ELSE <<>>))
         ELSE ChecksLoop(cps, i + 1, seen_categories, checks)

generate_checks(cps, has_deletes) ==
    ChecksLoop(cps, 1, {}, <<>>) \o (IF has_deletes THEN DELETE_CHECKS ELSE <<>>)

(***************************************************************************)
(* SpecAnalyze: one call of analyze_blast_radius(plan, repo, dot_text,     *)
(* max_depth).                                                             *)
(***************************************************************************)
DEFAULT_MAX_DEPTH == 5
WHY_PATHS_CAP == 20

\* Mutant: every affected resource gets a why-path
WhyPaths_uncapped(all_affected) ==
    [i \in 1..Len(all_affected) |->
        [target |-> all_affected[i].address,
         depth |-> all_affected[i].depth,
         path |-> all_affected[i].path]]

\* for ar in all_affected[:20]: why_paths.append({...})
WhyPaths(all_affected) ==
    [i \in 1..Min(WHY_PATHS_CAP, Len(all_affected)) |->
        [target |-> all_affected[i].address,
         depth |-> all_affected[i].depth,
         path |-> all_affected[i].path]]

ActionLists ==
    {<<"create">>, <<"update">>, <<"delete">>, <<"delete", "create">>, <<"no-op">>, <<"read">>}

\* The plans: any of the resources, listed in configuration order, each
\* with one of the action lists; planned_values lists the workload.
Plans ==
    {[resource_changes |->
         LET present == SelectSeq([i \in 1..Len(PlanAddresses) |-> i], LAMBDA i : i \in P)
         IN  [k \in 1..Len(present) |->
                 [address |-> PlanAddresses[present[k]].address,
                  type |-> PlanAddresses[present[k]].type,
                  change |-> [actions |-> acts[present[k]]]]],
      planned_values |-> [root_module |-> [resources |-> <<PlanAddresses[3]>>]]] :
        P \in SUBSET (1..Len(PlanAddresses)),
        acts \in [1..Len(PlanAddresses) -> ActionLists]}

\* How `terraform graph` writes a node
Written(address) ==
    IF address = "aws_iam_role.app" THEN "[root] " \o address \o " (expand)" ELSE address

EdgeLine(e) ==
    IF Contains(Written(e[1]), " ") \/ Contains(Written(e[2]), " ")
    THEN "    " \o Quote \o Written(e[1]) \o Quote \o " -> " \o Quote \o Written(e[2]) \o Quote
    ELSE "    " \o Written(e[1]) \o " -> " \o Written(e[2])

\* The dependency edges a graph text may hold: <<x, y>> is "x depends on y"
PossibleEdges ==
    <<<<"aws_lambda_function.api", "aws_iam_role.app">>,
      <<"aws_lambda_function.api", "aws_s3_bucket.data">>,
      <<"aws_iam_role.app", "aws_s3_bucket.data">>,
      <<"aws_s3_bucket.data", "aws_iam_role.app">>>>

GraphText(E) ==
    LET chosen == SelectSeq([i \in 1..Len(PossibleEdges) |-> i], LAMBDA i : i \in E)
    IN  <<"digraph {", "    compound = \"true\"">>
        \o [k \in 1..Len(chosen) |-> EdgeLine(PossibleEdges[chosen[k]])]
        \o <<"}">>

\* A text that is no dependency graph: an undirected edge, a line of words
MalformedText ==
    <<"graph {", "    aws_s3_bucket.data -- aws_lambda_function.api", "  not a graph", "}">>

\* The graph texts: the empty text, a malformed text, and graphs of at most
\* MaxLines edges
GraphTexts ==
    {<<>>, MalformedText}
    \cup {GraphText(E) : E \in {F \in SUBSET (1..Len(PossibleEdges)) : Cardinality(F) <= MaxLines}}

\* Two long dependency chains: dependent 1 depends on the role, dependent 2
\* on the bucket, and dependent k on dependent k - 2.
DigitChars == <<"0", "1", "2", "3", "4", "5", "6", "7", "8", "9">>

ChainAddress(k) ==
    "aws_instance.w" \o DigitChars[(k \div 10) + 1] \o DigitChars[(k % 10) + 1]

ChainEdge(k) ==
    <<ChainAddress(k),
      IF k > 2 THEN ChainAddress(k - 2) ELSE PlanAddresses[k].address>>

ChainText(n) ==
    <<"digraph {">> \o [k \in 1..n |-> EdgeLine(ChainEdge(k))] \o <<"}">>

ChainTexts == {ChainText(n) : n \in 1..MaxChain}

ChainAddresses == {ChainAddress(k) : k \in 1..MaxChain}

\* parse_dot_graph is pure: its value on the model's graph texts, computed once.
ParsedGraph == [t \in GraphTexts \cup ChainTexts |-> parse_dot_graph(t)]

AnalysisDepths == {0, 1, DEFAULT_MAX_DEPTH}

InitAnalyze ==
    /\ entry = "analyze_blast_radius"
    /\ pc = "start"
    /\ plan \in Plans
    /\ repo \in Corpora
    /\ dot_text = None \/ dot_text \in GraphTexts
    /\ max_depth \in AnalysisDepths
    /\ control_points = <<>>
    /\ l1_affected = <<>>
    /\ l2_affected = <<>>
    /\ result = EmptyResult
    /\ start_nodes = <<>>
    /\ adjacency = <<>>
    /\ visited = <<>>
    /\ queue = <<>>
    /\ affected = <<>>
    /\ enqueued = [n \in AnalysisAddresses |-> 0]
    /\ NoScore
    /\ NoCall

\* lines 611-681: the nodes are built; with a graph text and at least one
\* node, compute_tiered_affected is entered.  The function is called
\* directly or by the analyze command.
AnalyzeStart ==
    /\ entry \in {"analyze_blast_radius", "analyze"}
    /\ pc = "start"
    /\ \E nodes \in {NodesLoop(plan, extract_resources(plan), 1, <<>>)} :
           /\ changed_nodes' = nodes
           /\ control_points' = ControlPointsOf(nodes)
           /\ IF dot_text # None /\ dot_text # <<>> /\ nodes # <<>>
              THEN /\ adjacency' = TraversalAdjacency(ParsedGraph[dot_text])
                   /\ start_nodes' = [i \in 1..Len(nodes) |-> nodes[i].address]
                   /\ pc' = "seed"
              ELSE /\ UNCHANGED <<adjacency, start_nodes>>
                   /\ pc' = "finish"
    /\ UNCHANGED <<entry, callVars, l1_count, l2_count, history_match_count, raw_score, score,
                   max_depth, visited, queue, affected, enqueued,
                   plan, repo, dot_text, l1_affected, l2_affected, result>>

\* compute_tiered_affected, lines 301-311: the tiers of the traversal's result
TierReturn ==
    /\ pc = "tier"
    /\ l1_affected' = TierL1(affected)
    /\ l2_affected' = TierL2(affected, changed_nodes)
    /\ pc' = "finish"
    /\ UNCHANGED <<entry, callVars, scoreVars, bfsVars, plan, repo, dot_text, control_points, result>>

\* sum(1 for ar in tier if ar.address not in changed_addresses)
ScoreCount(tier, nodes) ==
    Len(SelectSeq(tier, LAMBDA ar : ar.address \notin {nodes[i].address : i \in 1..Len(nodes)}))

\* plan_summary["by_action"]
ByAction(nodes) ==
    [a \in {nodes[i].action : i \in 1..Len(nodes)} |->
        Cardinality({i \in 1..Len(nodes) : nodes[i].action = a})]

\* lines 683-754: history, score, severity, checks, and the BlastResult.
\* changed_types is list({...}): the types in the iteration order of a set.
AnalyzeFinish ==
    /\ pc = "finish"
    /\ \E changed_types \in Orders({changed_nodes[i].resource_type : i \in 1..Len(changed_nodes)}) :
       \E history \in {compute_history_prior(changed_types, changed_nodes, repo)} :
          LET nodes == changed_nodes
              all_affected == l1_affected \o l2_affected
              l1_score_count == ScoreCount(l1_affected, nodes)
              l2_score_count == ScoreCount(l2_affected, nodes)
              has_deletes == \E i \in 1..Len(nodes) : nodes[i].action \in {"delete", "replace"}
          IN  /\ l1_count' = l1_score_count
              /\ l2_count' = l2_score_count
              /\ history_match_count' = history.count
              /\ repo' = StoreAfter(repo, history.matches)
              /\ raw_score' = BlastScoreSum(nodes, l1_score_count, l2_score_count, history.count)
              /\ score' \in compute_blast_score(nodes, l1_score_count, l2_score_count, history.count)
              /\ result' =
                    [score |-> score',
                     severity |-> severity_label(score'),
                     changes |-> [i \in 1..Len(nodes) |-> ChangeOf(nodes[i])],
                     control_points |->
                         [i \in 1..Len(control_points) |->
                             [address |-> control_points[i].address,
                              resource_type |-> control_points[i].resource_type,
                              action |-> control_points[i].action,
                              category |-> control_points[i].category,
                              criticality |-> control_points[i].criticality]],
                     affected |->
                         [i \in 1..Len(all_affected) |->
                             [address |-> all_affected[i].address,
                              depth |-> all_affected[i].depth,
                              path |-> all_affected[i].path]],
                     why_paths |-> WhyPaths(all_affected),
                     checks |-> generate_checks(control_points, has_deletes),
                     history_matches |-> history.matches,
                     plan_summary |->
                         [total_changes |-> Len(nodes),
                          control_points |-> Len(control_points),
                          affected_resources |-> Len(all_affected),
                          by_action |-> ByAction(nodes)]]
    /\ pc' = "done"
    /\ UNCHANGED <<entry, callVars, changed_nodes, bfsVars, plan, dot_text, control_points,
                   l1_affected, l2_affected>>

NextAnalyze == AnalyzeStart \/ BFSSeed \/ BFSPop \/ BFSReturn \/ TierReturn \/ AnalyzeFinish

SpecAnalyze == InitAnalyze /\ [][NextAnalyze]_vars

(***************************************************************************)
(* SpecSeverity: severity_label, called on its own with any score of one   *)
(* decimal in [0, 100], and called by analyze_blast_radius on the score of *)
(* its result.                                                             *)
(***************************************************************************)
InitSeverity ==
    /\ entry = "severity_label"
    /\ pc = "call"
    /\ score \in 0..1000
    /\ changed_nodes = <<>> /\ l1_count = 0 /\ l2_count = 0
    /\ history_match_count = 0 /\ raw_score = 0
    /\ NoBFS
    /\ NoAnalysis
    /\ NoCall

\* sev = severity_label(score)
SeverityLabel ==
    /\ entry = "severity_label"
    /\ pc = "call"
    /\ result' = [result EXCEPT !.score = score, !.severity = severity_label(score)]
    /\ pc' = "done"
    /\ UNCHANGED <<entry, callVars, scoreVars, bfsVars, plan, repo, dot_text, control_points,
                   l1_affected, l2_affected>>

NextSeverity == SeverityLabel \/ NextAnalyze

SpecSeverity == (InitSeverity \/ InitAnalyze) /\ [][NextSeverity]_vars

(***************************************************************************)
(* SpecClassify: calls of classify_control_point and is_boundary_resource. *)
(* CONTROL_POINT_PATTERNS is a dict, read in insertion order: a call of    *)
(* classify_control_point is made with the table in one of several         *)
(* insertion orders.                                                       *)
(***************************************************************************)
Reverse(table) == [i \in 1..Len(table) |-> table[Len(table) + 1 - i]]
Rotate(table, k) == [i \in 1..Len(table) |-> table[((i + k - 1) % Len(table)) + 1]]
Swap(table, a, b) == [table EXCEPT ![a] = table[b], ![b] = table[a]]

\* The insertion orders: the table as written, reversed, rotated, and with
\* two entries exchanged.
TableOrders ==
    {Reverse(CONTROL_POINT_PATTERNS)}
    \cup {Rotate(CONTROL_POINT_PATTERNS, k) : k \in 0..(Len(CONTROL_POINT_PATTERNS) - 1)}
    \cup {Swap(CONTROL_POINT_PATTERNS, a, b) : a, b \in 1..Len(CONTROL_POINT_PATTERNS)}

InitClassify ==
    /\ \/ /\ entry = "classify_control_point"
          /\ args \in [resource_type : ResourceTypes, table : TableOrders]
       \/ /\ entry = "is_boundary_resource"
          /\ args \in [resource_type : ResourceTypes, table : {CONTROL_POINT_PATTERNS}]
    /\ pc = "call"
    /\ ret = None
    /\ NoScore
    /\ NoBFS
    /\ NoAnalysis

\* classify_control_point(resource_type), the table in the order args.table
ClassifyControlPoint ==
    /\ entry = "classify_control_point"
    /\ pc = "call"
    /\ ret' = ClassifyLoop(Lower(args.resource_type), args.table, 1, None, 0)
    /\ pc' = "done"
    /\ UNCHANGED <<entry, args, scoreVars, bfsVars, anVars>>

\* is_boundary_resource(resource_type)
IsBoundaryResource ==
    /\ entry = "is_boundary_resource"
    /\ pc = "call"
    /\ ret' = is_boundary_resource(args.resource_type)
    /\ pc' = "done"
    /\ UNCHANGED <<entry, args, scoreVars, bfsVars, anVars>>

NextClassify == ClassifyControlPoint \/ IsBoundaryResource

SpecClassify == InitClassify /\ [][NextClassify]_vars

(***************************************************************************)
(* SpecHistory: compute_history_prior called on its own.  changed_nodes    *)
(* holds the changed resources, no two at one address; args the list of    *)
(* their types in any order; repo the store; ret what the call returned.   *)
(* SpecHistoryAll adds the calls made by analyze_blast_radius.             *)
(***************************************************************************)
Distinct(s) == \A i, j \in 1..Len(s) : s[i] = s[j] => i = j

HistoryPlans ==
    {nodes \in SeqsUpTo(HistoryNodes, Cardinality(HistoryAddresses)) :
        Distinct([i \in 1..Len(nodes) |-> nodes[i].address])}

\* Stores of at most MaxFixes records, and the store of all the records in
\* the order they were created and in the opposite order.
RECURSIVE InOrderCreated(_)
InOrderCreated(fixes) ==
    IF fixes = {} THEN <<>>
    ELSE LET first == CHOOSE f \in fixes : \A g \in fixes : f.created_at <= g.created_at
         IN  <<first>> \o InOrderCreated(fixes \ {first})

AllFixes == InOrderCreated(HistoryFixes)

HistoryCorpora ==
    {store \in SeqsUpTo(HistoryFixes, MaxFixes) : Distinct(store)}
    \cup {AllFixes, Reverse(AllFixes)}

InitHistory ==
    /\ entry = "compute_history_prior"
    /\ pc = "call"
    /\ changed_nodes \in HistoryPlans
    /\ args \in Orders({changed_nodes[i].resource_type : i \in 1..Len(changed_nodes)})
    /\ repo \in HistoryCorpora
    /\ ret = None
    /\ l1_count = 0 /\ l2_count = 0 /\ history_match_count = 0 /\ raw_score = 0 /\ score = 0
    /\ plan = <<>> /\ dot_text = <<>> /\ control_points = <<>>
    /\ l1_affected = <<>> /\ l2_affected = <<>> /\ result = EmptyResult
    /\ NoBFS

\* count, matches = compute_history_prior(changed_resource_types, changed_nodes, repo)
ComputeHistoryPrior ==
    /\ entry = "compute_history_prior"
    /\ pc = "call"
    /\ ret' = compute_history_prior(args, changed_nodes, repo)
    /\ repo' = StoreAfter(repo, ret'.matches)
    /\ pc' = "done"
    /\ UNCHANGED <<entry, args, scoreVars, bfsVars, plan, dot_text, control_points,
                   l1_affected, l2_affected, result>>

NextHistory == ComputeHistoryPrior

SpecHistory == InitHistory /\ [][NextHistory]_vars

NextHistoryAll == ComputeHistoryPrior \/ NextAnalyze

SpecHistoryAll == (InitHistory \/ InitAnalyze) /\ [][NextHistoryAll]_vars

(***************************************************************************)
(* SpecChecks: generate_checks called on its own with a list of control    *)
(* points, and called by analyze_blast_radius.                             *)
(***************************************************************************)
ControlPoint(address, resource_type, action, category, criticality) ==
    [address |-> address, resource_type |-> resource_type, action |-> action,
     is_control_point |-> TRUE, criticality |-> criticality, category |-> category]

\* Two control points of one category, one of each other category of the
\* table, one whose category has no checks, and a node without a category.
CheckNodes ==
    {ControlPoint("a", "aws_iam_role", "delete", "iam", 90),
     ControlPoint("b", "aws_iam_policy", "update", "iam", 85),
     ControlPoint("c", "aws_security_group", "update", "network", 80),
     ControlPoint("d", "azurerm_role_assignment", "create", "rbac", 90),
     ControlPoint("e", "aws_kms_key", "update", "encryption", 70),
     BlastNode("f", "aws_s3_bucket", "update")}

InitChecks ==
    /\ entry = "generate_checks"
    /\ pc = "call"
    /\ args \in [control_points : SeqsUpTo(CheckNodes, MaxControlPoints), has_deletes : BOOLEAN]
    /\ ret = None
    /\ NoScore
    /\ NoBFS
    /\ NoAnalysis

\* generate_checks(control_points, has_deletes)
GenerateChecks ==
    /\ entry = "generate_checks"
    /\ pc = "call"
    /\ ret' = generate_checks(args.control_points, args.has_deletes)
    /\ pc' = "done"
    /\ UNCHANGED <<entry, args, scoreVars, bfsVars, anVars>>

NextChecks == GenerateChecks \/ NextAnalyze

SpecChecks == (InitChecks \/ InitAnalyze) /\ [][NextChecks]_vars

(***************************************************************************)
(* SpecAction: the action of one resource change with any action list, as  *)
(* _normalize_action, extract_resources and analyze_blast_radius derive it.*)
(***************************************************************************)
RawActionNames == {"create", "update", "delete", "no-op", "read"}

ActionSeqs == SeqsUpTo(RawActionNames, MaxActions)

\* A plan of one resource change with the given action list
ActionPlan(actions) ==
    [resource_changes |->
        <<[address |-> PlanAddresses[2].address, type |-> PlanAddresses[2].type,
           change |-> [actions |-> actions]]>>,
     planned_values |-> [root_module |-> [resources |-> <<PlanAddresses[3]>>]]]

InitAction ==
    \/ /\ entry = "_normalize_action"
       /\ pc = "call"
       /\ args \in ActionSeqs
       /\ ret = None
       /\ NoScore /\ NoBFS /\ NoAnalysis
    \/ /\ entry = "extract_resources"
       /\ pc = "call"
       /\ args \in {ActionPlan(actions) : actions \in ActionSeqs}
       /\ ret = None
       /\ NoScore /\ NoBFS /\ NoAnalysis
    \/ /\ entry = "analyze_blast_radius"
       /\ pc = "start"
       /\ plan \in {ActionPlan(actions) : actions \in ActionSeqs}
       /\ repo = <<>>
       /\ dot_text \in {None, GraphText({2})}
       /\ max_depth = DEFAULT_MAX_DEPTH
       /\ control_points = <<>> /\ l1_affected = <<>> /\ l2_affected = <<>>
       /\ result = EmptyResult
       /\ start_nodes = <<>> /\ adjacency = <<>>
       /\ visited = <<>> /\ queue = <<>> /\ affected = <<>>
       /\ enqueued = [n \in AnalysisAddresses |-> 0]
       /\ NoScore /\ NoCall

\* _normalize_action(actions)
NormalizeAction ==
    /\ entry = "_normalize_action"
    /\ pc = "call"
    /\ ret' = _normalize_action(args)
    /\ pc' = "done"
    /\ UNCHANGED <<entry, args, scoreVars, bfsVars, anVars>>

\* TerraformAnalyzer.extract_resources(plan)
ExtractResources ==
    /\ entry = "extract_resources"
    /\ pc = "call"
    /\ ret' = extract_resources(args)
    /\ pc' = "done"
    /\ UNCHANGED <<entry, args, scoreVars, bfsVars, anVars>>

NextAction == NormalizeAction \/ ExtractResources \/ NextAnalyze

SpecAction == InitAction /\ [][NextAction]_vars

(***************************************************************************)
(* SpecChain: analyses of a plan that changes the role, the bucket or      *)
(* both, with a graph of two long dependency chains and a max_depth that   *)
(* reaches their ends, next to the analyses of SpecAnalyze.                *)
(***************************************************************************)
ChainPlans ==
    {p \in Plans :
        /\ p.resource_changes # <<>>
        /\ \A i \in 1..Len(p.resource_changes) :
              /\ p.resource_changes[i].address # PlanAddresses[3].address
              /\ p.resource_changes[i].change.actions \in {<<"update">>, <<"delete">>}}

InitChain ==
    /\ entry = "analyze_blast_radius"
    /\ pc = "start"
    /\ plan \in ChainPlans
    /\ repo = <<>>
    /\ dot_text \in ChainTexts
    /\ max_depth \in {DEFAULT_MAX_DEPTH, MaxChain}
    /\ control_points = <<>>
    /\ l1_affected = <<>>
    /\ l2_affected = <<>>
    /\ result = EmptyResult
    /\ start_nodes = <<>>
    /\ adjacency = <<>>
    /\ visited = <<>>
    /\ queue = <<>>
    /\ affected = <<>>
    /\ enqueued = [n \in AnalysisAddresses \cup ChainAddresses |-> 0]
    /\ NoScore
    /\ NoCall

SpecChain == (InitChain \/ InitAnalyze) /\ [][NextAnalyze]_vars

(***************************************************************************)
(* Claims about compute_blast_score (checked under SpecScore).             *)
(***************************************************************************)
ScoreDone == entry = "compute_blast_score" /\ pc \in {"done", "again"}

AllCreate(nodes) == \A i \in 1..Len(nodes) : nodes[i].action = "create"
AllPlainUpdate(nodes) ==
    \A i \in 1..Len(nodes) :
        nodes[i].action = "update" /\ ~is_boundary_resource(nodes[i].resource_type)

\* The claimed points of one resource, in thousandths
ClaimedPoints(node, nodes) ==
    LET base == CASE node.action = "delete" -> 20000
                  [] node.action = "replace" -> 25000
                  [] node.action = "update" -> 5000
                  [] node.action = "create" -> 8000
                  [] OTHER -> 0
        boundary == is_boundary_resource(node.resource_type)
        weighted == IF boundary THEN (base * 15) \div 10 ELSE base
    IN  IF AllCreate(nodes)
        THEN (IF boundary THEN (weighted * 5) \div 10 ELSE (weighted * 3) \div 10)
        ELSE weighted

RECURSIVE ClaimedPointsSum(_, _)
ClaimedPointsSum(nodes, i) ==
    IF i > Len(nodes) THEN 0
    ELSE ClaimedPoints(nodes[i], nodes) + ClaimedPointsSum(nodes, i + 1)

ClaimedSum(nodes, l1, l2, history) ==
    ClaimedPointsSum(nodes, 1)
    + Min(l1 + l2, 25) * (IF AllCreate(nodes) THEN 375
                          ELSE IF AllPlainUpdate(nodes) THEN 500 ELSE 1500)
    + Min(5 * history, 15) * 1000

LonePlan(action, resource_type) ==
    /\ Len(changed_nodes) = 1
    /\ changed_nodes[1].action = action
    /\ changed_nodes[1].resource_type = resource_type
    /\ l1_count = 0 /\ l2_count = 0 /\ history_match_count = 0

C2_ScoreInRange ==
    ScoreDone =>
        /\ score \in 0..1000
        /\ raw_score > 100000 => score = 1000
        /\ LET clamped == IF raw_score > 100000 THEN 100000
                          ELSE IF raw_score < 0 THEN 0 ELSE raw_score
           IN  (score * 100 - clamped) \in -50..50

\* A scored plan whose sum is above 100, and one of 13 or more creates.
C2_Witness ==
    /\ ScoreDone
    /\ raw_score > 100000
    /\ Len(changed_nodes) >= 13
    /\ AllCreate(changed_nodes)

\* The step from one call to the next changes the action of exactly one
\* resource, resource i, from action `from` to action `to`.
ActionChanged(i, from, to) ==
    /\ ScoreDone /\ ScoreDone'
    /\ i \in 1..Len(changed_nodes)
    /\ changed_nodes[i].action = from
    /\ changed_nodes' = [changed_nodes EXCEPT ![i].action = to]
    /\ UNCHANGED <<l1_count, l2_count, history_match_count>>

\* C9 as stated: an all-create plan scores strictly lower than the same plan
\* with exactly one resource's action update instead of create.
C9_Original ==
    [][\A i \in 1..Len(changed_nodes) :
          (AllCreate(changed_nodes) /\ ActionChanged(i, "create", "update"))
              => score < score']_vars

\* C9 amended: the all-create plan never scores higher, and scores strictly
\* lower whenever its own score is below 100 (at 100 both plans are clamped
\* to 100.0).
C9_GreenfieldLower ==
    [][\A i \in 1..Len(changed_nodes) :
          (AllCreate(changed_nodes) /\ ActionChanged(i, "create", "update"))
              => /\ score <= score'
                 /\ score < 1000 => score < score']_vars

\* The second call of a pair: two resources, one update and one create
\* (the first call had both as create), impacted resources, a score below 100.
C9_Witness ==
    /\ entry = "compute_blast_score" /\ pc = "again"
    /\ Len(changed_nodes) = 2
    /\ changed_nodes[1].action = "update"
    /\ changed_nodes[2].action = "create"
    /\ l1_count + l2_count > 0
    /\ score < 1000

NonGreenfieldStep == ~IsGreenfield(changed_nodes) /\ ~IsGreenfield(changed_nodes')

PlainResource(i) == ~is_boundary_resource(changed_nodes[i].resource_type)

\* C10 as stated: in a non-greenfield plan, a non-boundary resource scores
\* strictly more as delete than as update, and strictly more as update than
\* as create.
C10_Original ==
    [][\A i \in 1..Len(changed_nodes) :
          (PlainResource(i) /\ NonGreenfieldStep) =>
              /\ ActionChanged(i, "update", "delete") => score' > score
              /\ ActionChanged(i, "create", "update") => score' > score]_vars

StrictBelowClamp(lower, higher) == lower <= higher /\ (lower < 1000 => lower < higher)

\* C10 amended: in a non-greenfield plan the order is delete > create >
\* update (create is worth 8 points, update 5): the score as delete is
\* strictly greater than as create, and as create strictly greater than as
\* update, except that scores clamped to 100.0 are equal.
C10_ActionOrder ==
    [][\A i \in 1..Len(changed_nodes) :
          (PlainResource(i) /\ NonGreenfieldStep) =>
              /\ ActionChanged(i, "create", "delete") => StrictBelowClamp(score, score')
              /\ ActionChanged(i, "update", "create") => StrictBelowClamp(score, score')
              /\ ActionChanged(i, "update", "delete") => StrictBelowClamp(score, score')]_vars

\* The second call of a pair on a non-greenfield plan of two resources: the
\* second, a non-boundary resource, is now delete; the score is below 100.
C10_Witness ==
    /\ entry = "compute_blast_score" /\ pc = "again"
    /\ Len(changed_nodes) = 2
    /\ changed_nodes[1].action = "update"
    /\ changed_nodes[2].action = "delete"
    /\ ~is_boundary_resource(changed_nodes[2].resource_type)
    /\ l1_count + l2_count > 0
    /\ score < 1000

\* The step from one call to the next changes history_match_count only,
\* from `from` to `to`.
HistoryChanged(from, to) ==
    /\ ScoreDone /\ ScoreDone'
    /\ history_match_count = from /\ history_match_count' = to
    /\ UNCHANGED <<changed_nodes, l1_count, l2_count>>

\* C11 as stated: for fixed changed resources, l1_count and l2_count,
\* raising history_match_count from 0 to 3 strictly increases the score.
C11_Original == [][HistoryChanged(0, 3) => score < score']_vars

\* C11 amended: raising history_match_count from 0 to 3 never lowers the
\* score, and strictly increases it whenever the score with no history match
\* is below 100 (a score of 100.0 stays 100.0).
C11_HistoryRaises ==
    [][HistoryChanged(0, 3) => /\ score <= score'
                               /\ score < 1000 => score < score']_vars

\* The second call of test_history_increases_score: a lone non-boundary
\* update with three history matches, 5 + 15 = 20.0.
C11_Witness ==
    /\ entry = "compute_blast_score" /\ pc = "again"
    /\ Len(changed_nodes) = 1
    /\ changed_nodes[1].action = "update"
    /\ changed_nodes[1].resource_type = "aws_s3_bucket"
    /\ l1_count = 0 /\ l2_count = 0 /\ history_match_count = 3
    /\ score = 200

\* The step from one call to the next changes l1_count or l2_count only.
ImpactChanged ==
    /\ ScoreDone /\ ScoreDone'
    /\ UNCHANGED <<changed_nodes, history_match_count>>

\* The step from one call to the next changes history_match_count only.
HistoryOnlyChanged ==
    /\ ScoreDone /\ ScoreDone'
    /\ UNCHANGED <<changed_nodes, l1_count, l2_count>>

\* C12: for fixed changed resources the score is the same for every
\* l1_count + l2_count >= 25 and the same for every history_match_count >= 3
\* (where the overlay is 15 points); and the score never decreases when
\* l1_count + l2_count or history_match_count grows.
C12_Saturation ==
    [][/\ (ImpactChanged /\ l1_count + l2_count >= 25 /\ l1_count' + l2_count' >= 25)
            => score' = score
       /\ (HistoryOnlyChanged /\ history_match_count >= 3 /\ history_match_count' >= 3)
            => score' = score
       /\ (HistoryOnlyChanged /\ history_match_count = 0 /\ history_match_count' >= 3)
            => raw_score' = raw_score + 15000
       /\ (ImpactChanged /\ l1_count' + l2_count' >= l1_count + l2_count)
            => score' >= score
       /\ (HistoryOnlyChanged /\ history_match_count' >= history_match_count)
            => score' >= score]_vars

\* A second call with more than 25 impacted resources and more than 3
\* history matches, for a deleted boundary resource: 30 + 37.5 + 15 = 82.5.
C12_Witness ==
    /\ entry = "compute_blast_score" /\ pc = "again"
    /\ Len(changed_nodes) = 1
    /\ changed_nodes[1].action = "delete"
    /\ changed_nodes[1].resource_type = "aws_iam_role"
    /\ l1_count + l2_count > 25
    /\ history_match_count > 3
    /\ raw_score = 82500

\* C13: with an empty list of changed resources compute_blast_score returns
\* 0 for all l1_count, l2_count and history_match_count.
C13_ZeroBaseline == (ScoreDone /\ changed_nodes = <<>>) => score = 0

\* severity_label or analyze_blast_radius has returned
SeverityDone == pc = "done" /\ entry \in {"severity_label", "analyze_blast_radius"}

\* C14: the severity is critical exactly when score >= 75, high exactly when
\* 50 <= score < 75, medium exactly when 25 <= score < 50 and low exactly
\* when score < 25 (75 -> critical, 74.9 -> high, 50 -> high, 49.9 -> medium,
\* 25 -> medium, 24.9 -> low), for a call of severity_label and for the
\* severity and score of every BlastResult.
C14_SeverityThresholds ==
    SeverityDone =>
        /\ result.severity = "critical" <=> result.score >= 750
        /\ result.severity = "high" <=> (500 <= result.score /\ result.score < 750)
        /\ result.severity = "medium" <=> (250 <= result.score /\ result.score < 500)
        /\ result.severity = "low" <=> result.score < 250
        /\ result.score = 750 => result.severity = "critical"
        /\ result.score = 749 => result.severity = "high"
        /\ result.score = 500 => result.severity = "high"
        /\ result.score = 499 => result.severity = "medium"
        /\ result.score = 250 => result.severity = "medium"
        /\ result.score = 249 => result.severity = "low"

\* severity_label(74.9) has returned "high"
C14_Witness ==
    /\ entry = "severity_label" /\ pc = "done"
    /\ result.score = 749
    /\ result.severity = "high"

(***************************************************************************)
(* Claims about compute_affected_set (checked under SpecBFS, termination   *)
(* under SpecBFSFair).                                                     *)
(***************************************************************************)
BFSDone == entry = "compute_affected_set" /\ pc = "done"

Addresses(list) == {list[i].address : i \in 1..Len(list)}

\* C4: no returned AffectedResource has depth greater than max_depth or less
\* than 1 (nor is any node ever recorded beyond max_depth), and popping a node
\* at depth max_depth records nothing new: it is not expanded.
C4_DepthBounded ==
    /\ [](/\ \A i \in 1..Len(visited) : visited[i].depth <= max_depth
          /\ \A i \in 1..Len(affected) :
                affected[i].depth >= 1 /\ affected[i].depth <= max_depth)
    /\ [][(pc = "loop" /\ queue # <<>> /\ Head(queue)[2] = max_depth)
             => (visited' = visited /\ queue' = Tail(queue))]_vars

\* A finished traversal that returned a node at depth max_depth which has a
\* neighbour that was never recorded.
C4_Witness ==
    /\ BFSDone
    /\ \E i \in 1..Len(affected) :
          /\ affected[i].depth = max_depth
          /\ \E n \in AdjGet(adjacency, affected[i].address) : ~InVisited(visited, n)

\* The nodes within k hops of the seed set
RECURSIVE WithinHops(_)
WithinHops(k) ==
    IF k = 0 THEN Range(start_nodes)
    ELSE LET near == WithinHops(k - 1)
         IN  near \cup UNION {AdjGet(adjacency, n) : n \in near}

\* The shortest hop distance of node n from the seed set, given n is reachable
Distance(n) == CHOOSE k \in 0..Cardinality(GraphNodes) :
                  /\ n \in WithinHops(k)
                  /\ \A j \in 0..(k - 1) : n \notin WithinHops(j)

ChainExample ==
    /\ start_nodes = <<"A">>
    /\ adjacency = AdjacencyOf({<<"A", "B">>, <<"B", "C">>, <<"C", "D">>})
    /\ max_depth = 2

\* C6: the result holds exactly one entry for each non-seed node whose
\* shortest distance from the seed set is between 1 and max_depth, with that
\* distance as its depth, and nothing else; the chain A->B->C->D from seed A
\* with max_depth 2 gives exactly B at depth 1 and C at depth 2.
C6_ShortestDistance ==
    BFSDone =>
        /\ \A n \in GraphNodes :
              Cardinality({i \in 1..Len(affected) : affected[i].address = n})
                 = IF n \in WithinHops(max_depth) \ Range(start_nodes) THEN 1 ELSE 0
        /\ \A i \in 1..Len(affected) :
              /\ affected[i].address \in GraphNodes
              /\ affected[i].depth = Distance(affected[i].address)
        /\ ChainExample =>
              [i \in 1..Len(affected) |-> <<affected[i].address, affected[i].depth>>]
                 = << <<"B", 1>>, <<"C", 2>> >>

\* A finished traversal from seeds A and B where D is one hop from A and two
\* hops from B, and C is reachable only from B.
C6_Witness ==
    /\ BFSDone
    /\ start_nodes = <<"B", "A">>
    /\ adjacency = AdjacencyOf({<<"B", "C">>, <<"C", "D">>, <<"A", "D">>})
    /\ max_depth = 2
    /\ Addresses(affected) = {"C", "D"}

DistinctSeeds == \A i, j \in 1..Len(start_nodes) : start_nodes[i] = start_nodes[j] => i = j

\* C7: every call of compute_affected_set terminates, also on cycles and
\* self-loops, and with distinct seed addresses no node is put on the queue
\* more than once.
C7_TerminatesQueuedOnce ==
    /\ <>(pc = "done")
    /\ [](DistinctSeeds => \A n \in DOMAIN enqueued : enqueued[n] <= 1)

\* A finished traversal of the cycle A -> B -> A with a self-loop on B.
C7_Witness ==
    /\ BFSDone
    /\ start_nodes = <<"A">>
    /\ adjacency = AdjacencyOf({<<"A", "B">>, <<"B", "A">>, <<"B", "B">>})
    /\ max_depth = 2
    /\ enqueued["A"] = 1 /\ enqueued["B"] = 1

(***************************************************************************)
(* Claims about analyze_blast_radius and the functions it calls (checked   *)
(* under SpecAnalyze).                                                     *)
(***************************************************************************)
AnalysisDone == entry = "analyze_blast_radius" /\ pc = "done"

\* compute_tiered_affected has returned
Tiered == entry = "analyze_blast_radius" /\ pc \in {"finish", "done"}

ChangedAddresses == {changed_nodes[i].address : i \in 1..Len(changed_nodes)}

SomeBoundaryOrDestructive ==
    \E i \in 1..Len(changed_nodes) :
        \/ classify_control_point(changed_nodes[i].resource_type) # None
        \/ changed_nodes[i].action \in {"delete", "replace"}

DepthOne(list) == SelectSeq(list, LAMBDA ar : ar.depth = 1)
Deeper(list) == SelectSeq(list, LAMBDA ar : ar.depth >= 2)

\* C3: compute_tiered_affected returns as L1 the affected resources of depth
\* exactly 1, whatever the changed nodes are, and as L2 the affected
\* resources of depth 2 or more when some changed node is a boundary
\* resource or is deleted or replaced, and nothing otherwise.
C3_TiersAndGate ==
    Tiered =>
        /\ l1_affected = DepthOne(affected)
        /\ SomeBoundaryOrDestructive => l2_affected = Deeper(affected)
        /\ ~SomeBoundaryOrDestructive => l2_affected = <<>>

\* A lone plain update with a two-hop chain of dependents: L1 holds the
\* direct dependent, the indirect one was found and is discarded.
C3_Witness ==
    /\ Tiered
    /\ Len(changed_nodes) = 1
    /\ changed_nodes[1].action = "update"
    /\ changed_nodes[1].resource_type = "aws_s3_bucket"
    /\ Len(l1_affected) = 1
    /\ \E i \in 1..Len(affected) : affected[i].depth = 2
    /\ l2_affected = <<>>

\* C5: the result of compute_affected_set holds no seed address, and in the
\* BlastResult no changed address is listed in affected or in why_paths;
\* the impacted count given to the score is the number of affected
\* resources, none of which is a changed one.
C5_NoSeedInResult ==
    /\ \A i \in 1..Len(affected) : affected[i].address \notin Range(start_nodes)
    /\ AnalysisDone =>
          LET changed == {result.changes[i].address : i \in 1..Len(result.changes)}
          IN  /\ \A i \in 1..Len(result.affected) : result.affected[i].address \notin changed
              /\ \A i \in 1..Len(result.why_paths) : result.why_paths[i].target \notin changed
              /\ l1_count + l2_count =
                    Cardinality({result.affected[i].address : i \in 1..Len(result.affected)}
                                \ changed)

\* Two changed resources that depend on each other, and a third resource
\* that depends on one of them: only the third is affected.
C5_Witness ==
    /\ AnalysisDone
    /\ start_nodes = <<"aws_iam_role.app", "aws_s3_bucket.data">>
    /\ "aws_s3_bucket.data" \in AdjGet(adjacency, "aws_iam_role.app")
    /\ "aws_iam_role.app" \in AdjGet(adjacency, "aws_s3_bucket.data")
    /\ Len(result.affected) = 1
    /\ result.affected[1].address = "aws_lambda_function.api"
    /\ l1_count + l2_count = 1

\* The dependency edges written in the graph text: <<x, y>> is "x depends on y"
WrittenEdges ==
    IF dot_text = None THEN {}
    ELSE {PossibleEdges[i] : i \in {j \in 1..Len(PossibleEdges) :
                                        EdgeLine(PossibleEdges[j]) \in Range(dot_text)}}

\* C8: for a graph edge x -> y (x depends on y), a plan that changes y and
\* not x reports x as affected at depth 1 (max_depth is a positive
\* integer); and every step of every reported path goes from a resource to
\* one that depends on it, so a change of x never reaches y through x -> y.
C8_ReverseEdgesOnly ==
    AnalysisDone =>
        /\ \A e \in WrittenEdges :
              (e[2] \in ChangedAddresses /\ e[1] \notin ChangedAddresses /\ max_depth >= 1)
              => \E i \in 1..Len(result.affected) :
                    result.affected[i].address = e[1] /\ result.affected[i].depth = 1
        /\ \A i \in 1..Len(result.affected) :
              \A k \in 1..(Len(result.affected[i].path) - 1) :
                  <<result.affected[i].path[k + 1], result.affected[i].path[k]>> \in WrittenEdges

\* The bucket is changed; the function depends on it and is reported, the
\* role the bucket depends on is not.
C8_Witness ==
    /\ AnalysisDone
    /\ WrittenEdges = {<<"aws_lambda_function.api", "aws_s3_bucket.data">>,
                       <<"aws_s3_bucket.data", "aws_iam_role.app">>}
    /\ ChangedAddresses = {"aws_s3_bucket.data"}
    /\ Len(result.affected) = 1
    /\ result.affected[1].address = "aws_lambda_function.api"
    /\ result.affected[1].depth = 1

(***************************************************************************)
(* Claims about classify_control_point and is_boundary_resource (checked   *)
(* under SpecClassify).                                                    *)
(***************************************************************************)
\* the entries of the table whose prefix the lower-cased type starts with
MatchingEntries(resource_type) ==
    {i \in 1..Len(CONTROL_POINT_PATTERNS) :
        StartsWith(Lower(resource_type), CONTROL_POINT_PATTERNS[i][1])}

\* (category, criticality) of the longest matching prefix, or None
LongestPrefixMatch(resource_type) ==
    IF MatchingEntries(resource_type) = {} THEN None
    ELSE LET i == CHOOSE k \in MatchingEntries(resource_type) :
                     \A j \in MatchingEntries(resource_type) :
                         Len(CONTROL_POINT_PATTERNS[j][1]) <= Len(CONTROL_POINT_PATTERNS[k][1])
         IN  <<CONTROL_POINT_PATTERNS[i][2], CONTROL_POINT_PATTERNS[i][3]>>

\* C15: classify_control_point returns the (category, criticality) of the
\* longest table prefix the type starts with, compared case-insensitively,
\* or None when no prefix matches, whatever the insertion order of the
\* table; and is_boundary_resource(t) is true exactly when
\* classify_control_point(t) is not None.
C15_LongestPrefix ==
    /\ (entry = "classify_control_point" /\ pc = "done") =>
          /\ ret = LongestPrefixMatch(args.resource_type)
          /\ args.resource_type = "aws_iam_policy_attachment" => ret = <<"iam", 90>>
          /\ args.resource_type = "AWS_IAM_User_Policy_Attachment" => ret = <<"iam", 85>>
          /\ args.resource_type = "aws_iam_group_membership" => ret = <<"iam", 75>>
          /\ args.resource_type = "google_project_iam_member" => ret = <<"iam", 90>>
          /\ args.resource_type \in {"aws_s3_bucket", "aws_iam", ""} => ret = None
    /\ (entry = "is_boundary_resource" /\ pc = "done") =>
          ret = (LongestPrefixMatch(args.resource_type) # None)

\* A type that starts with two prefixes of different criticality, written
\* in upper case, classified with the shorter prefix inserted first.
C15_Witness ==
    /\ entry = "classify_control_point" /\ pc = "done"
    /\ args.resource_type = "AWS_IAM_User_Policy_Attachment"
    /\ args.table = Reverse(CONTROL_POINT_PATTERNS)
    /\ ret = <<"iam", 85>>

(***************************************************************************)
(* Claims about compute_history_prior (checked under SpecHistory).         *)
(***************************************************************************)
HistoryDone == entry = "compute_history_prior" /\ pc = "done"

\* The changed addresses whose lower-cased text occurs in the lower-cased
\* issue text or in the lower-cased error excerpt of the record.
Mentions ==
    [fix \in HistoryFixes |->
        {address \in HistoryAddresses :
            \/ Contains(Lower(fix.issue), Lower(address))
            \/ Contains(Lower(fix.error_excerpt), Lower(address))}]

MentionsChanged(fix) == Mentions[fix] \cap ChangedAddresses # {}

GateOpen ==
    \E i \in 1..Len(changed_nodes) :
        \/ is_boundary_resource(changed_nodes[i].resource_type)
        \/ changed_nodes[i].action \in {"delete", "replace"}

\* The records of the store that are history candidates
HistoryCandidateFixes ==
    {fix \in Range(repo) :
        \/ MentionsChanged(fix)
        \/ /\ GateOpen
           /\ TaggedWithType[fix] \cap Range(args) # {}
           /\ CategoryTags[fix] # {}}

CandidateClusters == {ClusterKey[fix] : fix \in HistoryCandidateFixes}

\* C16: compute_history_prior returns at most 3 matches, its count is the
\* number of matches it returns, candidates in more than 3 clusters give
\* exactly 3 matches, and no candidate (an empty store included) gives (0, []).
C16_CapAndCount ==
    HistoryDone =>
        /\ Len(ret.matches) <= 3
        /\ ret.count = Len(ret.matches)
        /\ Cardinality(CandidateClusters) > 3 => Len(ret.matches) = 3
        /\ HistoryCandidateFixes = {} => ret = [count |-> 0, matches |-> <<>>]

C16_Witness ==
    /\ HistoryDone
    /\ Cardinality(CandidateClusters) = 5
    /\ ret.count = 3
    /\ Len(ret.matches) = 3

ShortId(fix) == SubSeq(fix.id, 1, Min(SHORT_ID, Len(fix.id)))

\* The records of the store that the returned matches stand for
Returned(fix) == \E k \in 1..Len(ret.matches) : ret.matches[k].id = ShortId(fix)

MatchRecords(k) == {fix \in Range(repo) : ret.matches[k].id = ShortId(fix)}

\* C17: a record that mentions a changed address in its issue text or error
\* excerpt, in any letter case, is a candidate whether or not the gate is
\* open: it is returned unless a record of its cluster is returned or three
\* matches are; with the gate closed every returned match is such a record,
\* and a store without one gives (0, []).
C17_AddressOverride ==
    HistoryDone =>
        /\ \A fix \in Range(repo) :
              MentionsChanged(fix) =>
                 \/ Returned(fix)
                 \/ \E other \in Range(repo) : Returned(other) /\ ClusterKey[other] = ClusterKey[fix]
                 \/ Len(ret.matches) = HISTORY_MATCH_CAP
        /\ ~GateOpen =>
              /\ \A k \in 1..Len(ret.matches) :
                    /\ MatchRecords(k) # {}
                    /\ \A fix \in MatchRecords(k) : MentionsChanged(fix)
              /\ (\A fix \in Range(repo) : ~MentionsChanged(fix)) =>
                    ret = [count |-> 0, matches |-> <<>>]

C17_Witness ==
    /\ HistoryDone
    /\ ~GateOpen
    /\ changed_nodes = <<BlastNode("aws_s3_bucket.data", "aws_s3_bucket", "update")>>
    /\ Len(repo) = 2
    /\ ret = [count |-> 1,
              matches |-> <<[id |-> "99999999", issue |-> "Bucket was emptied",
                             resource_type |-> ""]>>]

\* The records whose tags are all resource types
TypeTagged ==
    {fix \in HistoryFixes :
        /\ FixTags(fix) # {}
        /\ FixTags(fix) \subseteq {Lower(t) : t \in ResourceTypes}}

\* C18: a returned record that mentions no changed address was returned
\* with the gate open, is tagged with a changed resource type (the store's
\* query by resource type finds it: the type occurs in its tags text, letter
\* case aside) and has a tag, trimmed and lower-cased, in the category set;
\* a record whose tags are all resource types is returned only if it
\* mentions a changed address.
C18_CategoryGate ==
    HistoryDone =>
        \A fix \in Range(repo) :
            (Returned(fix) /\ ~MentionsChanged(fix)) =>
                /\ GateOpen
                /\ TaggedWithType[fix] \cap Range(args) # {}
                /\ CategoryTags[fix] # {}
                /\ fix \notin TypeTagged

C18_Witness ==
    /\ HistoryDone
    /\ changed_nodes = <<BlastNode("aws_iam_role.app", "aws_iam_role", "update")>>
    /\ Len(repo) = 2
    /\ repo[1].tags = "aws_iam_role"
    /\ repo[2].tags = "aws_iam_role , Auth "
    /\ ret = [count |-> 1,
              matches |-> <<[id |-> "44444444", issue |-> "AuthError on role update",
                             resource_type |-> "aws_iam_role"]>>]

\* The record `other` is more complete than `fix`: it has an error excerpt
\* and fix has none, or they agree on that and other was created later.
Better(other, fix) ==
    \/ other.error_excerpt # "" /\ fix.error_excerpt = ""
    \/ /\ (other.error_excerpt = "") = (fix.error_excerpt = "")
       /\ other.created_at > fix.created_at

ReturnedFixes == {fix \in Range(repo) : Returned(fix)}

\* The keys of the records: the first CamelCase error token, else the first
\* four normalized words
ExpectedKeys ==
    /\ \A fix \in HistoryFixes :
          /\ fix.created_at \in {1, 5, 6} => ClusterKey[fix] = "TimeoutError"
          /\ fix.created_at = 2 => ClusterKey[fix] = "ConnectError"
          /\ fix.created_at = 4 => ClusterKey[fix] = "AuthError"
          /\ fix.created_at = 7 => ClusterKey[fix] = "role update failed"
          /\ fix.created_at = 8 => ClusterKey[fix] = "aws_instanceapp_a ran out of"
          /\ fix.created_at \in {10, 11} => ClusterKey[fix] = "policy attach failed for"

\* C19: no two returned matches have the same cluster key; the record
\* returned for a cluster is a candidate of that cluster than which no
\* candidate of the cluster is more complete (an error excerpt first, then
\* the later created_at); of two candidates with one key of which one has an
\* excerpt, that one alone is returned, in either order of the store.
C19_Dedup ==
    /\ ExpectedKeys
    /\ HistoryDone =>
          /\ \A k \in 1..Len(ret.matches) : Cardinality(MatchRecords(k)) = 1
          /\ \A j, k \in 1..Len(ret.matches) :
                (\E f \in MatchRecords(j), g \in MatchRecords(k) : ClusterKey[f] = ClusterKey[g])
                   => j = k
          /\ \A fix \in ReturnedFixes :
                /\ fix \in HistoryCandidateFixes
                /\ \A other \in HistoryCandidateFixes :
                      ClusterKey[other] = ClusterKey[fix] => ~Better(other, fix)
          /\ \A a, b \in HistoryCandidateFixes :
                (/\ Len(repo) = 2
                 /\ ClusterKey[a] = ClusterKey[b]
                 /\ a.error_excerpt # ""
                 /\ b.error_excerpt = "")
                    => ret.count = 1 /\ ReturnedFixes = {a}

C19_Witness ==
    /\ HistoryDone
    /\ Len(repo) = 2
    /\ repo[1].error_excerpt # ""
    /\ repo[2].error_excerpt = ""
    /\ repo[2].created_at > repo[1].created_at
    /\ Cardinality(CandidateClusters) = 1
    /\ Range(repo) = HistoryCandidateFixes
    /\ ret.count = 1
    /\ ret.matches[1].id = ShortId(repo[1])

(***************************************************************************)
(* Claims about the incident store (checked under SpecHistoryAll).         *)
(***************************************************************************)
\* C20: no step of compute_history_prior or of analyze_blast_radius changes
\* the store: the records, their order and every field of every record stay
\* as they were, for every plan, graph and gate outcome.
C20_StoreReadOnly == [][repo' = repo]_vars

C20_Witness ==
    /\ entry = "analyze_blast_radius"
    /\ pc = "done"
    /\ Len(repo) = 3
    /\ Len(result.history_matches) = 2
    /\ \E i \in 1..Len(repo) : result.history_matches[1].id = ShortId(repo[i])

(***************************************************************************)
(* Claims about generate_checks (checked under SpecChecks).                *)
(***************************************************************************)
\* The categories with checks among the control points
EmittedCategories(cps) ==
    {cps[i].category : i \in 1..Len(cps)} \cap DOMAIN CATEGORY_CHECKS

FirstAt(cps, c) == CHOOSE i \in 1..Len(cps) : cps[i].category = c /\ \A j \in 1..(i - 1) : cps[j].category # c

Occurrences(checks, text) == {k \in 1..Len(checks) : checks[k] = text}

\* The checks of category c stand together, in the order of the table,
\* starting at position `at`
BlockAt(checks, c, at) ==
    /\ at + Len(CATEGORY_CHECKS[c]) - 1 <= Len(checks)
    /\ \A n \in 1..Len(CATEGORY_CHECKS[c]) : checks[at + n - 1] = CATEGORY_CHECKS[c][n]

ChecksAsClaimed(cps, deletes, checks) ==
    /\ \A c \in DOMAIN CATEGORY_CHECKS : \A n \in 1..Len(CATEGORY_CHECKS[c]) :
          Cardinality(Occurrences(checks, CATEGORY_CHECKS[c][n])) =
             IF c \in EmittedCategories(cps) THEN 1 ELSE 0
    /\ \A c \in EmittedCategories(cps) :
          \E at \in 1..Len(checks) :
             /\ BlockAt(checks, c, at)
             /\ \A d \in EmittedCategories(cps) :
                   FirstAt(cps, d) < FirstAt(cps, c) =>
                      \E before \in 1..(at - 1) : BlockAt(checks, d, before)
    /\ Cardinality(Occurrences(checks, DELETE_CHECKS[1])) = IF deletes THEN 1 ELSE 0
    /\ deletes => checks[Len(checks)] = DELETE_CHECKS[1]
    /\ Len(checks) = 2 * Cardinality(EmittedCategories(cps)) + (IF deletes THEN 1 ELSE 0)

ChecksDone == entry = "generate_checks" /\ pc = "done"

\* C21: generate_checks gives, for each category among the control points
\* in the order of first appearance, the checks of that category once, and
\* analyze_blast_radius adds the 'not referenced by other stacks' check last
\* exactly when a changed resource, control point or not, is deleted or
\* replaced.
C21_Checks ==
    /\ ChecksDone => ChecksAsClaimed(args.control_points, args.has_deletes, ret)
    /\ AnalysisDone =>
          ChecksAsClaimed(control_points,
                          \E i \in 1..Len(changed_nodes) :
                              changed_nodes[i].action \in {"delete", "replace"},
                          result.checks)

C21_Witness ==
    /\ ChecksDone
    /\ Len(args.control_points) = 3
    /\ args.control_points[1].category = "network"
    /\ args.control_points[2].category = "iam"
    /\ args.control_points[3].category = "network"
    /\ args.has_deletes
    /\ ret = CATEGORY_CHECKS["network"] \o CATEGORY_CHECKS["iam"] \o DELETE_CHECKS

C21_WitnessAnalysis ==
    /\ AnalysisDone
    /\ control_points = <<>>
    /\ result.checks = DELETE_CHECKS

(***************************************************************************)
(* Claims about the changes an analysis takes from the plan (checked under *)
(* SpecAnalyze).                                                           *)
(***************************************************************************)
\* A resource change that changes nothing: its action list holds none of
\* create, update and delete (no-op, read)
Unchanging(rc) == Range(rc.change.actions) \cap {"create", "update", "delete"} = {}

ChangingChanges == SelectSeq(plan.resource_changes, LAMBDA rc : ~Unchanging(rc))

ChangingAddresses == [i \in 1..Len(ChangingChanges) |-> ChangingChanges[i].address]

AddressList(records) == [i \in 1..Len(records) |-> records[i].address]

\* C22: the resources of an analysis are the resource changes that change
\* something, in plan order: the others (no-op and read changes, and
\* resources known only from planned_values, whose action is unknown) are in
\* neither changes nor control_points, are not counted in plan_summary, are
\* not seeds, and have no node in the score; a plan without a changing
\* resource gives score 0, severity low, no control point and total_changes
\* 0, with or without a graph and incident records.
C22_SkippedActions ==
    /\ (entry = "analyze_blast_radius" /\ pc # "start") =>
          /\ AddressList(changed_nodes) = ChangingAddresses
          /\ \A i \in 1..Len(changed_nodes) : changed_nodes[i].action \notin SkippedActions
          /\ Range(AddressList(control_points)) \subseteq Range(ChangingAddresses)
          /\ start_nodes \in {<<>>, ChangingAddresses}
    /\ AnalysisDone =>
          /\ AddressList(result.changes) = ChangingAddresses
          /\ Range(AddressList(result.control_points)) \subseteq Range(ChangingAddresses)
          /\ result.plan_summary.total_changes = Len(ChangingChanges)
          /\ DOMAIN result.plan_summary.by_action \cap SkippedActions = {}
          /\ raw_score = BlastScoreSum(changed_nodes, l1_count, l2_count, history_match_count)
          /\ ChangingChanges = <<>> =>
                /\ result.score = 0
                /\ result.severity = "low"
                /\ result.control_points = <<>>
                /\ result.changes = <<>>
                /\ result.plan_summary.total_changes = 0
                /\ result.plan_summary.control_points = 0

C22_Witness ==
    /\ AnalysisDone
    /\ Len(plan.resource_changes) = 3
    /\ plan.resource_changes[1].change.actions = <<"no-op">>
    /\ plan.resource_changes[2].change.actions = <<"read">>
    /\ plan.resource_changes[3].change.actions = <<"no-op">>
    /\ dot_text # None
    /\ Len(dot_text) = 3 + MaxLines
    /\ Len(repo) = 3
    /\ result.score = 0
    /\ result.severity = "low"
    /\ result.plan_summary.total_changes = 0

(***************************************************************************)
(* Claims about the action of a changed resource (checked under            *)
(* SpecAction).                                                            *)
(***************************************************************************)
\* The action the claim gives to an action list
ClaimedAction(actions) ==
    CASE {"create", "delete"} \subseteq Range(actions) -> "replace"
      [] "delete" \in Range(actions) /\ "create" \notin Range(actions) -> "delete"
      [] "update" \in Range(actions) /\ "delete" \notin Range(actions) -> "update"
      [] "create" \in Range(actions) /\ Range(actions) \cap {"delete", "update"} = {} -> "create"
      [] Range(actions) \cap {"create", "update", "delete"} = {} -> "no-op"

\* C23: the action of a resource change is replace exactly when its list
\* holds create and delete, else delete, else update, else create, else
\* no-op, and _normalize_action, extract_resources and the change recorded
\* by analyze_blast_radius all give that action (a no-op resource is not
\* recorded).
C23_ActionRule ==
    /\ (entry = "_normalize_action" /\ pc = "done") => ret = ClaimedAction(args)
    /\ (entry = "extract_resources" /\ pc = "done") =>
          /\ Len(ret) >= Len(args.resource_changes)
          /\ \A i \in 1..Len(args.resource_changes) :
                /\ ret[i].address = args.resource_changes[i].address
                /\ ret[i].action = ClaimedAction(args.resource_changes[i].change.actions)
                /\ ret[i].action = _normalize_action(args.resource_changes[i].change.actions)
    /\ AnalysisDone =>
          \A i \in 1..Len(plan.resource_changes) :
             LET rc == plan.resource_changes[i]
                 recorded == {k \in 1..Len(result.changes) : result.changes[k].address = rc.address}
             IN  IF ClaimedAction(rc.change.actions) = "no-op"
                 THEN recorded = {}
                 ELSE /\ Cardinality(recorded) = 1
                      /\ \A k \in recorded :
                            result.changes[k].action = ClaimedAction(rc.change.actions)

C23_Witness ==
    /\ AnalysisDone
    /\ plan.resource_changes[1].change.actions = <<"update", "delete", "create">>
    /\ Len(result.changes) = 1
    /\ result.changes[1].action = "replace"

(***************************************************************************)
(* Claims about an analysis without a usable graph (checked under          *)
(* SpecAnalyze).                                                           *)
(***************************************************************************)
\* The graph texts without an edge line: no line holds an arrow
EdgeFreeTexts == {t \in GraphTexts : \A i \in 1..Len(t) : ~Contains(t[i], "->")}

NoGraph == dot_text = None \/ dot_text \in EdgeFreeTexts

\* C24: an analysis without a graph text, or with a text that is empty or
\* has no edge line, finds nothing affected (without a text, or with the
\* empty text, the traversal is not entered); affected and why_paths are empty,
\* affected_resources is 0, and the score is that of compute_blast_score
\* with l1_count = l2_count = 0 on the nodes and history count of the call.
C24_NoGraph ==
    /\ (entry = "analyze_blast_radius" /\ NoGraph) =>
          /\ affected = <<>>
          /\ l1_affected = <<>>
          /\ l2_affected = <<>>
          /\ (dot_text = None \/ dot_text = <<>>) => pc \in {"start", "finish", "done"}
    /\ (AnalysisDone /\ NoGraph) =>
          /\ result.affected = <<>>
          /\ result.why_paths = <<>>
          /\ result.plan_summary.affected_resources = 0
          /\ l1_count = 0
          /\ l2_count = 0
          /\ raw_score = BlastScoreSum(changed_nodes, 0, 0, history_match_count)
          /\ result.score \in compute_blast_score(changed_nodes, 0, 0, history_match_count)

C24_Witness ==
    /\ AnalysisDone
    /\ dot_text # None
    /\ dot_text = MalformedText
    /\ Len(changed_nodes) = 3
    /\ Len(result.history_matches) = 2
    /\ result.affected = <<>>
    /\ result.score > 0

(***************************************************************************)
(* Claims about why_paths (checked under SpecChain).                       *)
(***************************************************************************)
\* C25: why_paths has at most 20 entries, and they are the first min(20,
\* number of affected) entries of affected with the same address, depth and
\* path; affected is in traversal order, the resources of depth 1 before
\* every deeper one.
C25_WhyPaths ==
    AnalysisDone =>
        /\ Len(result.why_paths) <= 20
        /\ Len(result.why_paths) = Min(20, Len(result.affected))
        /\ \A i \in 1..Len(result.why_paths) :
              /\ result.why_paths[i].target = result.affected[i].address
              /\ result.why_paths[i].depth = result.affected[i].depth
              /\ result.why_paths[i].path = result.affected[i].path
        /\ \A i, j \in 1..Len(result.affected) :
              (i < j /\ result.affected[j].depth = 1) => result.affected[i].depth = 1
        /\ \E deeper \in BOOLEAN :
              result.affected =
                 [i \in 1..Len(SelectSeq(affected, LAMBDA ar : ar.depth = 1 \/ deeper)) |->
                     [address |-> SelectSeq(affected, LAMBDA ar : ar.depth = 1 \/ deeper)[i].address,
                      depth |-> SelectSeq(affected, LAMBDA ar : ar.depth = 1 \/ deeper)[i].depth,
                      path |-> SelectSeq(affected, LAMBDA ar : ar.depth = 1 \/ deeper)[i].path]]

C25_Witness ==
    /\ AnalysisDone
    /\ Len(result.affected) = 22
    /\ Len(result.why_paths) = 20
    /\ result.why_paths[20].target = "aws_instance.w20"
    /\ result.why_paths[20].depth = 10

(***************************************************************************)
(* SpecCLI: the `fixdoc analyze` command, commands/analyze.py lines        *)
(* 478-575.  A plan file holds the JSON text of a document, whole or       *)
(* truncated; json.load rejects a truncated text.  stdout and stderr are   *)
(* the sequences of what click.echo wrote; a report is written as the      *)
(* format chosen and the BlastResult it renders.                           *)
(***************************************************************************)
_SEVERITY_ORDER == [low |-> 0, medium |-> 1, high |-> 2, critical |-> 3]

\* TerraformAnalyzer.get_changed_resources(plan)
get_changed_resources(p) ==
    SelectSeq(extract_resources(p),
              LAMBDA r : r.action \in {"create", "update", "delete", "replace"})

\* The plans given to the command: any of the resources, each deleted,
\* updated or left alone
CLIPlans ==
    {p \in Plans :
        \A i \in 1..Len(p.resource_changes) :
            p.resource_changes[i].change.actions \in {<<"delete">>, <<"update">>, <<"no-op">>}}

PlanFiles ==
    [document : CLIPlans, truncated : {FALSE}]
    \cup [document : {p \in CLIPlans : Len(p.resource_changes) = 1}, truncated : {TRUE}]

\* --graph, and what `terraform graph` prints when it is run instead (None:
\* terraform is not on PATH, or it failed)
CLIGraphs == {None, GraphText({1, 2})}

InitCLI ==
    /\ entry = "analyze"
    /\ pc = "load"
    /\ args \in [plan_file : PlanFiles,
                 graph_file : CLIGraphs,
                 terraform_graph : CLIGraphs,
                 output_format : {"human", "json"},
                 max_depth : {DEFAULT_MAX_DEPTH},
                 exit_on : {None, "low", "medium", "high", "critical"},
                 summary : BOOLEAN]
    /\ ret = [exit_code |-> None, stdout |-> <<>>, stderr |-> <<>>]
    /\ plan = <<>>
    /\ repo \in {store \in Corpora : Len(store) <= 1}
    /\ dot_text = None
    /\ max_depth = 0
    /\ control_points = <<>> /\ l1_affected = <<>> /\ l2_affected = <<>>
    /\ result = EmptyResult
    /\ start_nodes = <<>> /\ adjacency = <<>>
    /\ visited = <<>> /\ queue = <<>> /\ affected = <<>>
    /\ enqueued = [n \in AnalysisAddresses |-> 0]
    /\ NoScore

\* lines 514-524: json.load, and the exit on JSONDecodeError
CLILoad ==
    /\ entry = "analyze"
    /\ pc = "load"
    /\ IF args.plan_file.truncated
       THEN /\ ret' = [ret EXCEPT !.exit_code = 1,
                                  !.stderr = <<"Error: Invalid JSON in plan file.",
                                               "Hint: Use terraform show -json plan.tfplan > plan.json">>]
            /\ pc' = "exited"
            /\ UNCHANGED plan
       ELSE /\ plan' = args.plan_file.document
            /\ pc' = "changed"
            /\ UNCHANGED ret
    /\ UNCHANGED <<entry, args, scoreVars, bfsVars, repo, dot_text, control_points,
                   l1_affected, l2_affected, result>>

\* lines 526-549: without a changing resource the command returns; else the
\* graph text is read or produced and analyze_blast_radius is called
CLIChanged ==
    /\ entry = "analyze"
    /\ pc = "changed"
    /\ IF get_changed_resources(plan) = <<>>
       THEN /\ ret' = [ret EXCEPT !.exit_code = 0,
                                  !.stdout = <<[format |-> "text",
                                                printed |-> "No changes to analyze."]>>]
            /\ pc' = "exited"
            /\ UNCHANGED <<dot_text, max_depth>>
       ELSE /\ dot_text' = IF args.graph_file # None THEN args.graph_file
                           ELSE args.terraform_graph
            /\ ret' = IF args.graph_file = None /\ args.terraform_graph = None
                         /\ args.output_format # "json"
                      THEN [ret EXCEPT !.stderr =
                              <<"Note: terraform not on PATH; running without dependency graph.">>]
                      ELSE ret
            /\ max_depth' = args.max_depth
            /\ pc' = "start"
    /\ UNCHANGED <<entry, args, scoreVars, start_nodes, adjacency, visited, queue, affected,
                   enqueued, plan, repo, control_points, l1_affected, l2_affected, result>>

\* lines 562-568: the report
CLIPrint ==
    /\ entry = "analyze"
    /\ pc = "done"
    /\ ret' = [ret EXCEPT !.stdout =
                  Append(ret.stdout,
                         [format |-> IF args.summary THEN "summary" ELSE args.output_format,
                          printed |-> result])]
    /\ pc' = "gate"
    /\ UNCHANGED <<entry, args, scoreVars, bfsVars, anVars>>

\* Mutant: the threshold itself passes
CLIGate_above ==
    /\ entry = "analyze"
    /\ pc = "gate"
    /\ ret' = [ret EXCEPT !.exit_code =
                  IF args.exit_on # None
                     /\ _SEVERITY_ORDER[result.severity] > _SEVERITY_ORDER[args.exit_on]
                  THEN 1 ELSE 0]
    /\ pc' = "exited"
    /\ UNCHANGED <<entry, args, scoreVars, bfsVars, anVars>>

\* lines 570-575: CI gating, then the return
CLIGate ==
    /\ entry = "analyze"
    /\ pc = "gate"
    /\ ret' = [ret EXCEPT !.exit_code =
                  IF args.exit_on # None
                     /\ _SEVERITY_ORDER[result.severity] >= _SEVERITY_ORDER[args.exit_on]
                  THEN 1 ELSE 0]
    /\ pc' = "exited"
    /\ UNCHANGED <<entry, args, scoreVars, bfsVars, anVars>>

NextCLI == CLILoad \/ CLIChanged \/ NextAnalyze \/ CLIPrint \/ CLIGate

SpecCLI == InitCLI /\ [][NextCLI]_vars

(***************************************************************************)
(* Claims about the analyze command (checked under SpecCLI).               *)
(***************************************************************************)
CLIExited == entry = "analyze" /\ pc = "exited"

\* the severities, lowest first
SeverityLadder == <<"low", "medium", "high", "critical">>

AtOrAbove(severity, threshold) ==
    \E i, j \in 1..Len(SeverityLadder) :
        SeverityLadder[i] = severity /\ SeverityLadder[j] = threshold /\ i >= j

\* a document has a changing resource: one whose actions are not just no-op
HasChanges(document) ==
    \E i \in 1..Len(document.resource_changes) :
        document.resource_changes[i].change.actions # <<"no-op">>

C27_WitnessBelow ==
    /\ CLIExited
    /\ ~args.plan_file.truncated
    /\ args.exit_on = "critical"
    /\ result.severity = "high"
    /\ Len(ret.stdout) = 1
    /\ ret.exit_code = 0

C27_WitnessNoChanges ==
    /\ CLIExited
    /\ ~args.plan_file.truncated
    /\ Len(args.plan_file.document.resource_changes) = 2
    /\ args.exit_on = "low"
    /\ ret.exit_code = 0
    /\ Len(ret.stdout) = 1
    /\ ret.stdout[1].format = "text"

(***************************************************************************)
(* SpecMalformed: analyze_blast_radius called with a plan object of any    *)
(* shape, and the analyze command of SpecCLI.  A JSON value is written     *)
(* [tag, v]: its Python type and its content.  The code validates          *)
(* nothing: it fails where a method or an iteration is applied to a value  *)
(* that has none (AttributeError, TypeError), and where dict.get finds no  *)
(* key it goes on with the default.                                        *)
(***************************************************************************)
J(tag, v) == [tag |-> tag, v |-> v]

\* a change record: a dict; "" stands for an absent address or type, which
\* is what change.get(key, "") makes of it
ChangeRecord(address, type, change) ==
    J("dict", [address |-> address, type |-> type, change |-> change])

\* The values of change.actions, of change, and the elements of
\* resource_changes
RawActionsValues ==
    {J("missing", <<>>), J("null", <<>>), J("str", "delete"),
     J("list", <<"delete">>), J("list", <<"update">>)}

RawChangeValues ==
    {J("missing", J("missing", <<>>)), J("null", J("missing", <<>>))}
    \cup {J("dict", actions) : actions \in RawActionsValues}

RawItems ==
    {J("num", <<>>), J("str", <<>>), J("null", <<>>)}
    \cup {ChangeRecord(PlanAddresses[1].address, PlanAddresses[1].type, change) :
             change \in RawChangeValues}
    \cup {ChangeRecord(PlanAddresses[1].address, "", J("null", J("missing", <<>>))),
          ChangeRecord("", PlanAddresses[2].type, J("dict", J("list", <<"delete">>)))}

\* The plan objects: a dict without resource_changes, or with one that is
\* null, a string, a dict, or a list of up to MaxItems elements; a list;
\* None
RawPlans ==
    {J("list", J("missing", <<>>)), J("null", J("missing", <<>>)),
     J("dict", J("missing", <<>>)), J("dict", J("null", <<>>)),
     J("dict", J("str", <<>>)), J("dict", J("str", <<J("str", <<>>)>>)),
     J("dict", J("dict", <<>>)), J("dict", J("dict", <<J("str", <<>>)>>))}
    \cup {J("dict", J("list", items)) : items \in SeqsUpTo(RawItems, MaxItems)}

\* `for change in plan.get("resource_changes", [])`: the elements iterated
\* (the characters of a string, the keys of a dict)
Iterated(resource_changes) ==
    IF resource_changes.tag = "missing" THEN <<>> ELSE resource_changes.v

\* `"delete" in actions` and its like: membership in a list, substring of a string
ActionsHeld(actions) ==
    IF actions.tag = "missing" THEN <<>>
    ELSE IF actions.tag = "str"
         THEN SelectSeq(<<"create", "update", "delete">>,
                        LAMBDA a : Contains(actions.v, a))
         ELSE actions.v

\* extract_resources, lines 100-110, on one element: the exception raised, or None
ItemError(item) ==
    IF item.tag # "dict" THEN "AttributeError"
    ELSE IF item.v.type = "" THEN None
    ELSE IF item.v.change.tag = "missing" THEN None
    ELSE IF item.v.change.tag = "null" THEN "AttributeError"
    ELSE IF item.v.change.v.tag = "null" THEN "TypeError"
    ELSE None

\* extract_resources(plan) on a plan object: the exception raised, or None
PlanError(raw) ==
    IF raw.tag # "dict" THEN "AttributeError"
    ELSE IF raw.v.tag = "null" THEN "TypeError"
    ELSE LET items == Iterated(raw.v)
             bad == {i \in 1..Len(items) : ItemError(items[i]) # None}
         IN  IF bad = {} THEN None
             ELSE ItemError(items[CHOOSE i \in bad : \A j \in bad : i <= j])

\* the plan the code reads in a plan object that raises nothing: every
\* absent key at the default of its dict.get
PlanRead(raw) ==
    LET items == Iterated(raw.v)
    IN  [resource_changes |->
            [i \in 1..Len(items) |->
                [address |-> items[i].v.address,
                 type |-> items[i].v.type,
                 change |-> [actions |-> IF items[i].v.change.tag = "dict"
                                         THEN ActionsHeld(items[i].v.change.v)
                                         ELSE <<>>]]],
         planned_values |-> [root_module |-> [resources |-> <<>>]]]

\* analyze_blast_radius, lines 627-632, for one changing resource: the first
\* element with its address is asked for its change and actions
LookupError(items, address) ==
    LET hits == {i \in 1..Len(items) : items[i].v.address = address /\ address # ""}
    IN  IF hits = {} THEN None
        ELSE LET rc == items[CHOOSE i \in hits : \A j \in hits : i <= j]
             IN  IF rc.v.change.tag = "null" THEN "AttributeError"
                 ELSE IF rc.v.change.tag = "dict" /\ rc.v.change.v.tag = "null"
                      THEN "TypeError"
                      ELSE None

\* the exception the loop over the resources raises, or None
NodesError(raw) ==
    LET items == Iterated(raw.v)
        resources == SelectSeq(extract_resources(PlanRead(raw)),
                               LAMBDA res : res.action \notin SkippedActions)
        bad == {k \in 1..Len(resources) : LookupError(items, resources[k].address) # None}
    IN  IF bad = {} THEN None
        ELSE LookupError(items, resources[CHOOSE k \in bad : \A j \in bad : k <= j].address)

InitMalformed ==
    /\ entry = "analyze_blast_radius"
    /\ pc = "extract"
    /\ args \in RawPlans
    /\ ret = None
    /\ plan = <<>>
    /\ repo = <<>>
    /\ dot_text = None
    /\ max_depth = DEFAULT_MAX_DEPTH
    /\ control_points = <<>> /\ l1_affected = <<>> /\ l2_affected = <<>>
    /\ result = EmptyResult
    /\ start_nodes = <<>> /\ adjacency = <<>>
    /\ visited = <<>> /\ queue = <<>> /\ affected = <<>>
    /\ enqueued = [n \in AnalysisAddresses |-> 0]
    /\ NoScore

\* analyze_blast_radius, lines 611-632: extract_resources or the loop over
\* the resources raises, or the function goes on with what it read
AnalyzeExtract ==
    /\ entry = "analyze_blast_radius"
    /\ pc = "extract"
    /\ \E error \in {IF PlanError(args) # None THEN PlanError(args) ELSE NodesError(args)} :
          IF error # None
          THEN /\ ret' = error
               /\ pc' = "raised"
               /\ UNCHANGED plan
          ELSE /\ plan' = PlanRead(args)
               /\ pc' = "start"
               /\ UNCHANGED ret
    /\ UNCHANGED <<entry, args, scoreVars, bfsVars, repo, dot_text, control_points,
                   l1_affected, l2_affected, result>>

NextMalformed == AnalyzeExtract \/ NextCLI

SpecMalformed == (InitMalformed \/ InitCLI) /\ [][NextMalformed]_vars

(***************************************************************************)
(* Claims about malformed plans (checked under SpecMalformed).             *)
(***************************************************************************)
\* a plan object is a valid resource-change list: a dict whose
\* resource_changes is a list of dicts, each with an address, a type and a
\* change holding a list of actions
ValidChangeList(raw) ==
    /\ raw.tag = "dict"
    /\ raw.v.tag = "list"
    /\ \A i \in 1..Len(raw.v.v) :
          /\ raw.v.v[i].tag = "dict"
          /\ raw.v.v[i].v.address # ""
          /\ raw.v.v[i].v.type # ""
          /\ raw.v.v[i].v.change.tag = "dict"
          /\ raw.v.v[i].v.change.v.tag = "list"

\* C26: called with a plan that is not a valid resource-change list,
\* analyze_blast_radius never gets past the extraction: it raises an error,
\* nothing is scored and no BlastResult is built; and the analyze command,
\* given a plan file that is not valid JSON, exits with code 1 with nothing
\* on stdout.
C26_MalformedPlan ==
    /\ (entry = "analyze_blast_radius" /\ ~ValidChangeList(args)) =>
          /\ pc \in {"extract", "raised"}
          /\ pc = "raised" => ret \in {"AttributeError", "TypeError"}
          /\ result = EmptyResult
          /\ changed_nodes = <<>>
          /\ raw_score = 0
    /\ (entry = "analyze" /\ args.plan_file.truncated) =>
          /\ pc \in {"load", "exited"}
          /\ ret.stdout = <<>>
          /\ result = EmptyResult
          /\ pc = "exited" => ret.exit_code = 1

(***************************************************************************)
(* SpecWatch: the `fixdoc watch` command, commands/watch.py lines 221-339. *)
(* The wrapped command is given by what running it yields: whether it is   *)
(* found, its return code, whether it printed anything, and how many       *)
(* errors detect_and_parse finds in what it printed.  The answers to the   *)
(* prompts, and whether a capture yields a fix, are chosen when asked.     *)
(* ret holds the exit code, the errors whose fix was saved (0: the         *)
(* unparsed output), the errors saved to pending, and the answers given.   *)
(***************************************************************************)
ReturnCodes == 0..MaxReturnCode

InitWatch ==
    /\ entry = "watch"
    /\ pc = "popen"
    /\ args \in [found : BOOLEAN,
                 returncode : ReturnCodes,
                 printed : BOOLEAN,
                 errors : 0..MaxErrors,
                 no_prompt : BOOLEAN]
    /\ ret = [exit_code |-> None, saved |-> <<>>, pending |-> <<>>, answers |-> <<>>,
              errors |-> <<>>, i |-> 1]
    /\ NoScore /\ NoBFS /\ NoAnalysis

\* Mutant: every failure exits with 1
SysExit_failure(r, code) == [r EXCEPT !.exit_code = IF code = 0 THEN 0 ELSE 1]

\* sys.exit(code)
SysExit(r, code) == [r EXCEPT !.exit_code = code]

\* `fix = ...; if fix: repo.save(fix)` for the errors of a list, in order
Captured(r, errors, fixes) ==
    [r EXCEPT !.saved = r.saved \o SelectSeq(errors, LAMBDA e : e \in fixes)]

\* lines 248-276, 321-339: the command is started and awaited.  Not found:
\* exit 127.  Success, or nothing printed: exit with its code.  With
\* --no-prompt everything is captured and the command exits; else a prompt
\* follows.
WatchRun ==
    /\ entry = "watch"
    /\ pc = "popen"
    /\ IF ~args.found
       THEN ret' = SysExit(ret, 127) /\ pc' = "exited"
       ELSE IF args.returncode = 0 \/ ~args.printed
       THEN ret' = SysExit(ret, args.returncode) /\ pc' = "exited"
       ELSE IF args.no_prompt
       THEN /\ \E fixes \in SUBSET (IF args.errors = 0 THEN {0} ELSE 1..args.errors) :
                  ret' = SysExit(Captured(ret,
                                          IF args.errors = 0 THEN <<0>>
                                          ELSE [k \in 1..args.errors |-> k],
                                          fixes),
                                 args.returncode)
            /\ pc' = "exited"
       ELSE /\ ret' = [ret EXCEPT !.errors = [k \in 1..args.errors |-> k]]
            /\ pc' = IF args.errors <= 1 THEN "single_prompt" ELSE "multi_prompt"
    /\ UNCHANGED <<entry, args, scoreVars, bfsVars, anVars>>

\* lines 278-319: _prompt_single_error_action, for unparsed output and for
\* one parsed error
WatchSingle ==
    /\ entry = "watch"
    /\ pc = "single_prompt"
    /\ \E action \in {"capture", "defer", "skip"}, fix \in BOOLEAN :
          LET err == IF args.errors = 0 THEN 0 ELSE 1
              asked == [ret EXCEPT !.answers =
                           Append(ret.answers, [prompt |-> "single", action |-> action,
                                                error |-> err])]
          IN  ret' = SysExit(IF action = "skip" THEN asked
                             ELSE IF action = "defer"
                                  THEN [asked EXCEPT !.pending = Append(asked.pending, err)]
                                  ELSE Captured(asked, <<err>>, IF fix THEN {err} ELSE {}),
                             args.returncode)
    /\ pc' = "exited"
    /\ UNCHANGED <<entry, args, scoreVars, bfsVars, anVars>>

\* _handle_multi_error_flow, lines 134-155: the menu
WatchMenu ==
    /\ entry = "watch"
    /\ pc = "multi_prompt"
    /\ \E action \in {"all", "single", "skip", "defer_all"}, num \in 0..(MaxErrors + 1) :
          LET asked == [ret EXCEPT !.answers =
                           Append(ret.answers, [prompt |-> "menu", action |-> action,
                                                error |-> IF action = "single" THEN num ELSE 0])]
          IN  IF action = "skip"
              THEN ret' = SysExit(asked, args.returncode) /\ pc' = "exited"
              ELSE IF action = "defer_all"
              THEN /\ ret' = SysExit([asked EXCEPT !.pending = asked.pending \o asked.errors],
                                     args.returncode)
                   /\ pc' = "exited"
              ELSE /\ ret' = IF action = "single" /\ 1 <= num /\ num <= Len(asked.errors)
                             THEN [asked EXCEPT !.errors = <<asked.errors[num]>>]
                             ELSE asked
                   /\ pc' = "per_error"
    /\ UNCHANGED <<entry, args, scoreVars, bfsVars, anVars>>

\* _handle_multi_error_flow, lines 157-182: one round of the loop; after the
\* last error the command exits
WatchPerError ==
    /\ entry = "watch"
    /\ pc = "per_error"
    /\ \E similar \in BOOLEAN, fix \in BOOLEAN :
       \E per_action \in {"capture", "skip", "defer"} \cup (IF similar THEN {"match"} ELSE {}) :
          LET err == ret.errors[ret.i]
              asked == [ret EXCEPT !.answers =
                           Append(ret.answers, [prompt |-> "error", action |-> per_action,
                                                error |-> err]),
                                   !.i = ret.i + 1]
              handled == IF per_action = "capture"
                         THEN Captured(asked, <<err>>, IF fix THEN {err} ELSE {})
                         ELSE IF per_action = "defer"
                              THEN [asked EXCEPT !.pending = Append(asked.pending, err)]
                              ELSE asked
          IN  IF ret.i = Len(ret.errors)
              THEN ret' = SysExit(handled, args.returncode) /\ pc' = "exited"
              ELSE ret' = handled /\ pc' = "per_error"
    /\ UNCHANGED <<entry, args, scoreVars, bfsVars, anVars>>

NextWatch == WatchRun \/ WatchSingle \/ WatchMenu \/ WatchPerError

SpecWatch == InitWatch /\ [][NextWatch]_vars

(***************************************************************************)
(* Claims about the watch command (checked under SpecWatch).               *)
(***************************************************************************)
WatchExited == entry = "watch" /\ pc = "exited"

\* C28: watch exits with the wrapped command's return code, 0 or not,
\* whatever was answered, however many errors were parsed, with or without
\* --no-prompt, and when nothing was printed; with 127 when the command is
\* not found; and it exits only once.  An answer of skip saves neither a fix
\* nor a pending entry: at the single prompt and the menu nothing at all is
\* saved, and in the per-error loop nothing for that error.
C28_WatchExit ==
    /\ (entry = "watch" /\ pc # "exited") => ret.exit_code = None
    /\ WatchExited => ret.exit_code = (IF args.found THEN args.returncode ELSE 127)
    /\ entry = "watch" =>
          \A k \in 1..Len(ret.answers) :
              ret.answers[k].action = "skip" =>
                 IF ret.answers[k].prompt = "error"
                 THEN /\ \A n \in 1..Len(ret.saved) : ret.saved[n] # ret.answers[k].error
                      /\ \A n \in 1..Len(ret.pending) : ret.pending[n] # ret.answers[k].error
                 ELSE ret.saved = <<>> /\ ret.pending = <<>>

C28_Witness ==
    /\ WatchExited
    /\ args.found
    /\ args.returncode = 2
    /\ args.errors = 3
    /\ ~args.no_prompt
    /\ Len(ret.answers) = 4
    /\ ret.answers[2].action = "capture"
    /\ ret.answers[3].action = "skip"
    /\ ret.answers[4].action = "defer"
    /\ ret.saved = <<1>>
    /\ ret.pending = <<3>>
    /\ ret.exit_code = 2

C28_WitnessSkip ==
    /\ WatchExited
    /\ args.returncode = 1
    /\ args.errors = 1
    /\ Len(ret.answers) = 1
    /\ ret.answers[1].action = "skip"
    /\ ret.saved = <<>>
    /\ ret.pending = <<>>
    /\ ret.exit_code = 1

C28_WitnessNotFound ==
    /\ WatchExited
    /\ ~args.found
    /\ ret.exit_code = 127

(***************************************************************************)
(* Claims about the paths of compute_affected_set (checked under SpecBFS). *)
(***************************************************************************)
\* The nodes within k hops of one node
RECURSIVE HopsFrom(_, _)
HopsFrom(seed, k) ==
    IF k = 0 THEN {seed}
    ELSE LET near == HopsFrom(seed, k - 1)
         IN  near \cup UNION {AdjGet(adjacency, n) : n \in near}

\* the positions in the seed list of the seeds exactly `depth` hops from a node
SeedsAtDistance(node, depth) ==
    {j \in 1..Len(start_nodes) :
        /\ node \in HopsFrom(start_nodes[j], depth)
        /\ depth > 0 => node \notin HopsFrom(start_nodes[j], depth - 1)}

\* C29: the path of every returned resource starts at a seed, ends at the
\* resource, has depth + 1 elements, and steps along edges of the adjacency
\* mapping; its first element is the seed that comes first in the seed list
\* among those at the resource's depth from it, in every iteration order of
\* the neighbour sets.
C29_Paths ==
    BFSDone =>
        \A i \in 1..Len(affected) :
            LET ar == affected[i]
                tied == SeedsAtDistance(ar.address, ar.depth)
            IN  /\ Len(ar.path) = ar.depth + 1
                /\ ar.path[1] \in Range(start_nodes)
                /\ ar.path[Len(ar.path)] = ar.address
                /\ \A k \in 1..(Len(ar.path) - 1) :
                      ar.path[k + 1] \in AdjGet(adjacency, ar.path[k])
                /\ tied # {}
                /\ ar.path[1] = start_nodes[CHOOSE j \in tied : \A m \in tied : j <= m]

\* Both seeds are one hop from C and two from D; B comes first in the list.
C29_Witness ==
    /\ BFSDone
    /\ start_nodes = <<"B", "A">>
    /\ adjacency = AdjacencyOf({<<"A", "C">>, <<"B", "C">>, <<"C", "D">>})
    /\ max_depth = 2
    /\ Len(affected) = 2
    /\ affected[1].path = <<"B", "C">>
    /\ affected[2].path = <<"B", "C", "D">>

(***************************************************************************)
(* SpecOrder: a call of compute_history_prior, or an analysis, followed by *)
(* the same call on the same records and types in another order: the       *)
(* store returns its records in any order (stores of more than             *)
(* MaxShuffled records: as they are or reversed), and list(set) gives the  *)
(* types in any order.  ret holds what the first call returned and, under  *)
(* `again`, what the second did.                                           *)
(***************************************************************************)
StoreOrders(store) ==
    IF Len(store) <= MaxShuffled
    THEN {[i \in 1..Len(store) |-> store[o[i]]] : o \in Orders(1..Len(store))}
    ELSE {store, Reverse(store)}

\* The analyses that are run twice: up to three resources deleted, updated
\* or left alone, with and without a graph, on the stores of SpecAnalyze in
\* every order
InitOrder ==
    /\ entry = "analyze_blast_radius"
    /\ pc = "start"
    /\ plan \in CLIPlans
    /\ repo \in UNION {StoreOrders(store) : store \in Corpora}
    /\ dot_text \in CLIGraphs
    /\ max_depth = DEFAULT_MAX_DEPTH
    /\ control_points = <<>> /\ l1_affected = <<>> /\ l2_affected = <<>>
    /\ result = EmptyResult
    /\ start_nodes = <<>> /\ adjacency = <<>>
    /\ visited = <<>> /\ queue = <<>> /\ affected = <<>>
    /\ enqueued = [n \in AnalysisAddresses |-> 0]
    /\ NoScore /\ NoCall

\* compute_history_prior once more, the types and the records in another order
HistoryAgain ==
    /\ entry = "compute_history_prior"
    /\ pc = "done"
    /\ \E changed_types \in Orders(Range(args)), store \in StoreOrders(repo) :
          ret' = [count |-> ret.count, matches |-> ret.matches,
                  again |-> compute_history_prior(changed_types, changed_nodes, store)]
    /\ pc' = "again"
    /\ UNCHANGED <<entry, args, scoreVars, bfsVars, anVars>>

\* analyze_blast_radius, lines 683-717, once more on the same plan and
\* graph, the types and the records in another order
AnalyzeAgain ==
    /\ entry = "analyze_blast_radius"
    /\ pc = "done"
    /\ \E changed_types \in Orders({changed_nodes[i].resource_type : i \in 1..Len(changed_nodes)}),
          store \in StoreOrders(repo) :
       \E history \in {compute_history_prior(changed_types, changed_nodes, store)} :
          ret' = [again |->
                     [history_match_count |-> history.count,
                      raw_score |-> BlastScoreSum(changed_nodes, l1_count, l2_count, history.count),
                      scores |-> compute_blast_score(changed_nodes, l1_count, l2_count, history.count),
                      history_matches |-> history.matches]]
    /\ pc' = "again"
    /\ UNCHANGED <<entry, args, scoreVars, bfsVars, anVars>>

NextOrder == ComputeHistoryPrior \/ HistoryAgain \/ NextAnalyze \/ AnalyzeAgain

SpecOrder == (InitHistory \/ InitOrder) /\ [][NextOrder]_vars

(***************************************************************************)
(* Claims about iteration order (checked under SpecOrder).                 *)
(***************************************************************************)
\* C30: a second call of compute_history_prior on the same changed types
\* and the same records of the store, each in any other order, returns the
\* match_count of the first; a second analysis of the same plan, graph and
\* store does so too, and has the score sum, the possible rounded scores and
\* the severity of the first.  (The matches themselves may differ.)
C30_OrderIndependent ==
    /\ (entry = "compute_history_prior" /\ pc = "again") =>
          /\ ret.again.count = ret.count
          /\ Len(ret.again.matches) = Len(ret.matches)
    /\ (entry = "analyze_blast_radius" /\ pc = "again") =>
          /\ ret.again.history_match_count = history_match_count
          /\ ret.again.history_match_count = Len(result.history_matches)
          /\ Len(ret.again.history_matches) = Len(result.history_matches)
          /\ ret.again.raw_score = raw_score
          /\ result.score \in ret.again.scores
          /\ ret.again.scores = compute_blast_score(changed_nodes, l1_count, l2_count,
                                                    history_match_count)
          /\ \A s \in ret.again.scores :
                Cardinality(ret.again.scores) = 1 =>
                   (s = result.score /\ severity_label(s) = result.severity)

\* Two calls on the same eleven records, of more than three clusters, whose
\* matches differ while the count is 3 both times
C30_Witness ==
    /\ entry = "compute_history_prior"
    /\ pc = "again"
    /\ Len(repo) > 3
    /\ ret.count = 3
    /\ ret.again.count = 3
    /\ ret.again.matches # ret.matches

\* Two analyses whose matches differ and whose score is the same
C30_WitnessAnalysis ==
    /\ entry = "analyze_blast_radius"
    /\ pc = "again"
    /\ history_match_count = 2
    /\ ret.again.history_matches # result.history_matches
    /\ ret.again.raw_score = raw_score
    /\ raw_score > 0

====
